---- MODULE Spec2Model ----
(***************************************************************************)
(* Verification model of the modular game engine (4cecoder/modular).       *)
(*                                                                         *)
(* The module holds several specifications over one set of variables:     *)
(*   SpecLoop      GameLoop::run driving Game::update (src/game_loop.rs,   *)
(*                 src/lib.rs)                                             *)
(*   SpecEcs       a World under the dispatcher of demos/ecs_demo.rs or of *)
(*                 Game, one system step at a time, with World::maintain   *)
(*   SpecPipe      the dispatchers of demos/pong_demo.rs, demos/breakout.rs *)
(*                 and Game: which system may start when                   *)
(*   SpecBreakout  BreakoutGame and the main loop of demos/breakout.rs     *)
(*   SpecDet       two runs of demos/pong_demo.rs on the same inputs       *)
(*   SpecPong      one run of demos/pong_demo.rs                           *)
(*   SpecCol       one run of a pong collision system on one world         *)
(*   SpecNonFinite Game::update called with any f32                        *)
(*   SpecScoring   a ScoringSystem and its client (src/scoring.rs)          *)
(*   SpecMenu      a MenuSystem and its client (src/menu.rs), the loops of *)
(*                 select_next and select_previous one iteration at a time *)
(*   SpecMenuFair  SpecMenu, with a running call always making its next    *)
(*                 loop iteration                                          *)
(*   SpecDifficulty a DifficultySystem and its client (src/difficulty.rs)  *)
(*   SpecStates    a StateManager and its client (src/game_state.rs)       *)
(* Each specification leaves the variables of the others unchanged.        *)
(*                                                                         *)
(* Numbers.  Durations are integer nanoseconds, as std::time::Duration     *)
(* holds them.  In the game loop, in pong and in breakout an f32 is held   *)
(* by its bit pattern and computed with as the IEEE 754 operations do      *)
(* (see the f32 arithmetic below).                                          *)
(* In the ECS world the step is the constant 1/60 s, and the f32 values are *)
(* exact rationals: a velocity v px/s is held as 60*v, a position p px as   *)
(* 3600*p, an acceleration as it is, so that v += a*dt is vel60 += a and    *)
(* p += v*dt is pos3600 += vel60.                                          *)
(***************************************************************************)
EXTENDS Integers, Sequences, FiniteSets, TLC

VARIABLES
    \* ---- GameLoop (src/game_loop.rs) and Game (src/lib.rs) ----
    gl_pc,          \* position of GameLoop::run / Game::update
    accumulator,    \* GameLoop.accumulator, ns
    frame_count,    \* GameLoop.frame_count
    timeDelta,      \* Time.delta resource, f32
    timeElapsed,    \* Time.elapsed resource, f32
    gl_pos,         \* Position.x of the one moving entity of the world, f32
    gl_vel,         \* Velocity.x of that entity, f32
    gl_running,     \* systems of the dispatcher that are executing
    gl_done,        \* systems that finished in the current dispatch
    quit,           \* the external quit signal (window close request)
    \* history of the run (not program state)
    accAtIterStart, \* accumulator when the current outer iteration began
    iterDispatches, \* dispatches made in the current outer iteration
    lastDelta,      \* wall-clock delta measured by the current iteration
    dispatches,     \* dispatcher.dispatch calls begun so far
    maintains,      \* world.maintain calls made so far
    clampedTotal,   \* sum of the clamped deltas accumulated so far, ns
    \* ---- the ECS world under a dispatcher (demos/ecs_demo.rs, src/lib.rs) ----
    ecs_prog,       \* whose dispatcher runs: "ecs_demo" (main) or "game" (Game)
    ecs_pc,         \* "idle" between ticks, "dispatch" inside dispatcher.dispatch
    ecs_w,          \* the World: entity registry and component storages
    ecs_keys,       \* InputState.keys_pressed
    ecs_running,    \* systems executing
    ecs_done,       \* systems finished in the current dispatch
    ecs_ticks,      \* loop iterations completed
    \* history of the run (not program state)
    ecs_w0,         \* the World when the current dispatch began
    ecs_deleted,    \* entities Entities::delete was called on in this dispatch
    ecs_reaped,     \* entities that were pending deletion when maintain ran
    \* ---- the dispatchers of the demos (pong_demo.rs, breakout.rs) and of Game ----
    pp_prog,        \* whose dispatcher: "pong_demo", "breakout" or "game"
    pp_pc,          \* "idle" between ticks, "dispatch" inside dispatcher.dispatch
    pp_running,     \* systems executing
    pp_done,        \* systems finished in the current dispatch
    pp_ticks,       \* dispatches completed
    \* ---- BreakoutGame and its main loop (demos/breakout.rs) ----
    bk_pc,          \* "input" at the top of the loop, "update", "closed", "panicked"
    bk_state,       \* BreakoutGame.game_state
    bk_delta,       \* Time.delta resource, f32
    bk_elapsed,     \* Time.elapsed resource, f32
    bk_ball,        \* the ball of self.balls: position and velocity (f32), flags
    bk_oldBall,     \* the ball clear_level deleted, in the world until maintain
    bk_bricks,      \* the Brick entities in the world, <<row, col, generation>>
    bk_paddles,     \* number of Paddle entities in the world (all at the same position)
    bk_gen,         \* number of initialize_level calls made
    bk_lives,       \* BreakoutGame.lives
    bk_level,       \* BreakoutGame.level
    bk_remaining,   \* BreakoutGame.bricks_remaining
    bk_updates,     \* loop iterations completed
    \* history of the run (not program state)
    bk_dispatches,  \* dispatcher.dispatch calls made
    bk_dispatchDelta, \* Time.delta seen by the last dispatch
    \* ---- two runs of demos/pong_demo.rs on the same inputs ----
    det_wA,         \* the world of run A
    det_wB,         \* the world of run B
    det_eA,         \* start_time.elapsed() of run A, microseconds
    det_eB,         \* start_time.elapsed() of run B, microseconds
    det_tick,       \* loop iterations both runs have completed
    \* ---- one run of demos/pong_demo.rs ----
    pg_w,           \* the world
    pg_e,           \* start_time.elapsed(), microseconds
    pg_tick,        \* loop iterations completed
    \* history of the run (not program state)
    pg_mid,         \* the world of the last tick when PongCollisionSystem started
    \* ---- one run of a pong collision system on one world ----
    col_in,         \* the world the system starts from
    col_out,        \* the world after PongCollisionSystem::run of pong_demo.rs
    col_imp,        \* the ball's velocity after the CollisionSystem of improved_pong.rs
    col_done,       \* the system has run
    \* ---- Game::update called by a client with any f32 (lib.rs) ----
    nf_w,           \* the World, every f32 as a finite number, an infinity or NaN
    nf_delta,       \* Time.delta
    nf_elapsed,     \* Time.elapsed
    nf_updates,     \* Game::update calls made
    \* ---- a ScoringSystem and its client (src/scoring.rs) ----
    sc_scores,      \* ScoringSystem.scores: player -> score type -> value (0 when absent)
    sc_ach,         \* ScoringSystem.achievements: id -> condition and unlocked flag
    sc_ops,         \* calls made
    \* history of the run (not program state)
    sc_met,         \* the <<player, achievement id>> pairs whose condition the player has met
    \* ---- a MenuSystem and its client (src/menu.rs) ----
    mn_items,       \* MenuSystem.items: sequence of [id, selectable]
    mn_sel,         \* MenuSystem.selected_index, counted from 0
    mn_nav,         \* MenuSystem.navigation_enabled
    mn_pc,          \* "idle", "next" / "prev" inside the loop of select_next /
                    \* select_previous, "panicked" once a call has panicked
    mn_idx,         \* next_index / prev_index of the running loop
    mn_ops,         \* calls made
    \* history of the run (not program state)
    mn_trail,       \* the select calls completed since the items last changed (the last two)
    \* ---- a DifficultySystem and its client (src/difficulty.rs) ----
    df_level,       \* DifficultySystem.current_level
    df_configs,     \* the keys of DifficultySystem.configs
    df_custom,      \* custom_config.is_some()
    df_panicked,    \* a call has panicked
    df_ops,         \* calls made
    \* history of the run (not program state)
    df_trail,       \* the next_level / previous_level calls made since any other call (the last two)
    \* ---- a StateManager and its client (src/game_state.rs) ----
    st_states,      \* the keys of StateManager.states
    st_stack,       \* StateManager.state_stack, top last
    st_ops,         \* calls made
    \* history of the run (not program state)
    st_enters,      \* per state id, the on_enter calls received
    st_exits,       \* per state id, the on_exit calls received
    st_result,      \* what the last call returned: "none", "ok" or "err"
    st_before       \* state_stack before the last call

loopVars == <<gl_pc, accumulator, frame_count, timeDelta, timeElapsed, gl_pos,
              gl_vel, gl_running, gl_done, quit, accAtIterStart, iterDispatches,
              lastDelta, dispatches, maintains, clampedTotal>>

ecsVars == <<ecs_prog, ecs_pc, ecs_w, ecs_keys, ecs_running, ecs_done, ecs_ticks,
             ecs_w0, ecs_deleted, ecs_reaped>>

pipeVars == <<pp_prog, pp_pc, pp_running, pp_done, pp_ticks>>

bkVars == <<bk_pc, bk_state, bk_delta, bk_elapsed, bk_ball, bk_oldBall, bk_bricks, bk_paddles,
            bk_gen, bk_lives, bk_level, bk_remaining, bk_updates, bk_dispatches,
            bk_dispatchDelta>>

detVars == <<det_wA, det_wB, det_eA, det_eB, det_tick>>

pgVars == <<pg_w, pg_e, pg_tick, pg_mid>>

colVars == <<col_in, col_out, col_imp, col_done>>

nfVars == <<nf_w, nf_delta, nf_elapsed, nf_updates>>

scVars == <<sc_scores, sc_ach, sc_ops, sc_met>>

mnVars == <<mn_items, mn_sel, mn_nav, mn_pc, mn_idx, mn_ops, mn_trail>>

dfVars == <<df_level, df_configs, df_custom, df_panicked, df_ops, df_trail>>

stVars == <<st_states, st_stack, st_ops, st_enters, st_exits, st_result, st_before>>

vars == <<loopVars, ecsVars, pipeVars, bkVars, detVars, pgVars, colVars, nfVars, scVars, mnVars, dfVars, stVars>>

\* what the actions of one specification leave alone
notLoopVars == <<ecsVars, pipeVars, bkVars, detVars, pgVars, colVars, nfVars, scVars, mnVars, dfVars, stVars>>
notEcsVars == <<loopVars, pipeVars, bkVars, detVars, pgVars, colVars, nfVars, scVars, mnVars, dfVars, stVars>>
notPipeVars == <<loopVars, ecsVars, bkVars, detVars, pgVars, colVars, nfVars, scVars, mnVars, dfVars, stVars>>
notBkVars == <<loopVars, ecsVars, pipeVars, detVars, pgVars, colVars, nfVars, scVars, mnVars, dfVars, stVars>>
notDetVars == <<loopVars, ecsVars, pipeVars, bkVars, pgVars, colVars, nfVars, scVars, mnVars, dfVars, stVars>>
notPgVars == <<loopVars, ecsVars, pipeVars, bkVars, detVars, colVars, nfVars, scVars, mnVars, dfVars, stVars>>
notColVars == <<loopVars, ecsVars, pipeVars, bkVars, detVars, pgVars, nfVars, scVars, mnVars, dfVars, stVars>>
notNfVars == <<loopVars, ecsVars, pipeVars, bkVars, detVars, pgVars, colVars, scVars, mnVars, dfVars, stVars>>
notScVars == <<loopVars, ecsVars, pipeVars, bkVars, detVars, pgVars, colVars, nfVars, mnVars, dfVars, stVars>>
notMnVars == <<loopVars, ecsVars, pipeVars, bkVars, detVars, pgVars, colVars, nfVars, scVars, dfVars, stVars>>
notDfVars == <<loopVars, ecsVars, pipeVars, bkVars, detVars, pgVars, colVars, nfVars, scVars, mnVars, stVars>>
notStVars == <<loopVars, ecsVars, pipeVars, bkVars, detVars, pgVars, colVars, nfVars, scVars, mnVars, dfVars>>

(***************************************************************************)
(* Bounds of the model and constants of the program                        *)
(***************************************************************************)
MaxFrames == 8
MaxTicks == 2
MaxEntities == 2
MaxPipeTicks == 4
MaxBkUpdates == 5
MaxPongTicks == 7
MaxPgTicks == 66
MaxNfUpdates == 3
MaxScOps == 4
MaxMenuOps == 6
MaxMenuItems == 3
MaxDfOps == 4
MaxStOps == 5

TargetFps == 60
MaxFrameTimeNs == 100000000
NanosPerSec == 1000000000

\* Duration::from_secs(1) / target_fps: integer division on nanoseconds
TargetFrameTime == NanosPerSec \div TargetFps

Abs(a) == IF a >= 0 THEN a ELSE -a

\* ---- f32 arithmetic (IEEE 754 binary32, round to nearest, ties to even) ----
\* An f32 is held as the integer that has its sign and, as magnitude, the bit
\* pattern of its absolute value: biased exponent * 2^23 + fraction.  The
\* order of the integers is the order of the numbers.  Zero is 0 (the sign of
\* a zero is not kept); infinities, NaN and subnormal numbers do not occur in
\* the runs modelled, and a result below the normal range is 0.

\* the number of binary digits of m, 0 <= m < 2^31
Bits8(m) ==
    IF m < 16 THEN (IF m < 4 THEN (IF m < 2 THEN m ELSE 2) ELSE IF m < 8 THEN 3 ELSE 4)
    ELSE (IF m < 64 THEN (IF m < 32 THEN 5 ELSE 6) ELSE IF m < 128 THEN 7 ELSE 8)
Bits(m) ==
    IF m < 65536 THEN (IF m < 256 THEN Bits8(m) ELSE 8 + Bits8(m \div 256))
    ELSE IF m < 16777216 THEN 16 + Bits8(m \div 65536)
    ELSE 24 + Bits8(m \div 16777216)

\* the significand (24 binary digits) and the exponent of an f32 f # 0:
\* |f| is Mant(f) * 2^Expo(f)
Mant(f) == 8388608 + (Abs(f) % 8388608)
Expo(f) == (Abs(f) \div 8388608) - 150

\* the f32 of significand q (24 digits, or 2^24 after a carry) and exponent e
PackBits(neg, q, e) ==
    IF e + 150 < 1 THEN 0
    ELSE IF neg THEN -((e + 149) * 8388608 + q) ELSE (e + 149) * 8388608 + q

\* q + r / (2 * half) rounded to the nearest, a tie to the even one; sticky
\* says that something more follows r
PackRound(neg, q, r, half, sticky, e) ==
    PackBits(neg, IF r > half \/ (r = half /\ (sticky \/ q % 2 = 1)) THEN q + 1 ELSE q, e)

\* m has 24 + k binary digits
PackShift(neg, m, e, sticky, k) ==
    IF k > 0 THEN PackRound(neg, m \div (2^k), m % (2^k), 2^(k - 1), sticky, e + k)
    ELSE PackBits(neg, m * (2^(-k)), e + k)

\* the f32 nearest to (m + t) * 2^e, negated when neg; 0 <= m < 2^31, and t is
\* 0 when sticky is FALSE and some number strictly between 0 and 1 otherwise
\* (then m has 26 digits or more)
Pack(neg, m, e, sticky) ==
    IF m = 0 THEN 0 ELSE PackShift(neg, m, e, sticky, Bits(m) - 24)

\* `n as f32` for an integer n
F32(n) == Pack(n < 0, Abs(n), 0, FALSE)

\* the product x * y of two significands is MulHigh * 2^21 + MulLow, by
\* halves of 12 binary digits
MulMid(x, y) == (x \div 4096) * (y % 4096) + (x % 4096) * (y \div 4096)
MulTail(x, y) == (MulMid(x, y) % 512) * 4096 + (x % 4096) * (y % 4096)
MulLow(x, y) == MulTail(x, y) % 2097152
MulHigh(x, y) ==
    8 * (x \div 4096) * (y \div 4096) + (MulMid(x, y) \div 512) + (MulTail(x, y) \div 2097152)

\* a * b
MulF(a, b) ==
    IF a = 0 \/ b = 0 THEN 0
    ELSE Pack((a < 0) # (b < 0), MulHigh(Mant(a), Mant(b)), Expo(a) + Expo(b) + 21,
              MulLow(Mant(a), Mant(b)) # 0)

\* big + small where whole is what of 8 * Mant(small) stays at the exponent
\* of big, and lost says that some of it fell off
AddAligned(big, small, whole, lost) ==
    Pack(big < 0,
         IF (big < 0) = (small < 0) THEN 8 * Mant(big) + whole
         ELSE 8 * Mant(big) - whole - (IF lost THEN 1 ELSE 0),
         Expo(big) - 3, lost)

\* big + small for |big| >= |small| > 0
AddOrdered(big, small) ==
    IF Expo(big) - Expo(small) > 27 THEN big
    ELSE AddAligned(big, small, (8 * Mant(small)) \div (2^(Expo(big) - Expo(small))),
                    (8 * Mant(small)) % (2^(Expo(big) - Expo(small))) # 0)

\* a + b
AddF(a, b) ==
    IF b = 0 THEN a
    ELSE IF a = 0 THEN b
    ELSE IF Abs(a) >= Abs(b) THEN AddOrdered(a, b) ELSE AddOrdered(b, a)

\* a - b
SubF(a, b) == AddF(a, -b)

\* the quotient and the remainder of r * 2^n by d, with the quotient of the
\* digits before appended in front: <<q, r>> becomes <<q', r'>>
DivStep(qr, n, d) == <<qr[1] * (2^n) + ((qr[2] * (2^n)) \div d), (qr[2] * (2^n)) % d>>

\* 26 binary places of the quotient x / y of two significands, and what is left
DivDigits(x, y) ==
    DivStep(DivStep(DivStep(DivStep(<<x \div y, x % y>>, 7, y), 7, y), 7, y), 5, y)
DivPack(neg, qr, e) == Pack(neg, qr[1], e, qr[2] # 0)

\* a / b, b # 0
DivF(a, b) ==
    IF a = 0 THEN 0
    ELSE DivPack((a < 0) # (b < 0), DivDigits(Mant(a), Mant(b)), Expo(a) - Expo(b) - 26)

\* the f32 nearest to the decimal literal n / d
Lit(n, d) == DivF(F32(n), F32(d))

\* Duration::as_secs_f32: the whole seconds plus the nanoseconds over 1e9
AsSecsF32(secs, nanos) == AddF(F32(secs), DivF(F32(nanos), F32(NanosPerSec)))

\* the whole part of the square root of n, 0 <= n < 2^31
RECURSIVE SqrtBetween(_, _, _)
SqrtBetween(n, lo, hi) ==
    IF lo >= hi THEN lo
    ELSE IF ((lo + hi + 1) \div 2) * ((lo + hi + 1) \div 2) <= n
         THEN SqrtBetween(n, (lo + hi + 1) \div 2, hi)
         ELSE SqrtBetween(n, lo, ((lo + hi + 1) \div 2) - 1)
Sqrt(n) == SqrtBetween(n, 0, 46340)

\* steps more binary digits of a square root: <<root, rest>> with
\* rest = radicand so far - root^2
RECURSIVE SqrtDigits(_, _)
SqrtDigits(s, steps) ==
    IF steps = 0 THEN s
    ELSE IF 4 * s[2] >= 4 * s[1] + 1
         THEN SqrtDigits(<<2 * s[1] + 1, 4 * s[2] - (4 * s[1] + 1)>>, steps - 1)
         ELSE SqrtDigits(<<2 * s[1], 4 * s[2]>>, steps - 1)

\* the square root of m * 2^e, e even, from the whole root r0 of m
SqrtPack(s, e) == Pack(FALSE, s[1], (e \div 2) - 14, s[2] # 0)
SqrtFrom(m, e, r0) == SqrtPack(SqrtDigits(<<r0, m - r0 * r0>>, 14), e)
SqrtOf(m, e) == SqrtFrom(m, e, Sqrt(m))

\* f32::sqrt of a >= 0
SqrtF(a) ==
    IF a = 0 THEN 0
    ELSE IF Expo(a) % 2 = 1 THEN SqrtOf(2 * Mant(a), Expo(a) - 1)
    ELSE SqrtOf(Mant(a), Expo(a))

\* Vec2::length
Speed(v) == SqrtF(AddF(MulF(v[1], v[1]), MulF(v[2], v[2])))

\* r * 2^n modulo d, seven binary digits at a time
RECURSIVE ShiftMod(_, _, _)
ShiftMod(r, n, d) ==
    IF n = 0 THEN r
    ELSE IF n >= 7 THEN ShiftMod((r * 128) % d, n - 7, d)
    ELSE (r * (2^n)) % d

\* a % b (the remainder of the division rounded toward zero, exact), b # 0
RemF(a, b) ==
    IF Abs(a) < Abs(b) THEN a
    ELSE Pack(a < 0, ShiftMod(Mant(a) % Mant(b), Expo(a) - Expo(b), Mant(b)), Expo(b), FALSE)

\* ---- f32::sin and f32::cos ----
\* f32::sin and f32::cos are the C library's sinf and cosf: the argument is
\* reduced to |r| <= pi / 4 (nearly) and a fixed polynomial of r is evaluated
\* in double precision and rounded to f32.  Here the polynomial is evaluated
\* on numbers of 70 binary places and rounded to f32 once.  Such a number is a
\* sequence of six digits <<whole part, d1, ..., d5>> in base 2^14; an
\* unfinished one may hold digits outside 0 .. 2^14 - 1.

\* the digits from the i-th on brought into 0 .. 2^14 - 1 with carry c coming
\* in from the right of the last; the whole part takes the last carry (it is
\* negative for a negative number)
RECURSIVE BigCarry(_, _, _)
BigCarry(s, i, c) ==
    IF i = 1 THEN <<s[1] + c>>
    ELSE Append(BigCarry(s, i - 1, (s[i] + c) \div 16384), (s[i] + c) % 16384)
BigNorm(s) == BigCarry(s, 6, 0)

\* a * b for b < 2 and a < 2^15, the places past the 70th cut off
BigMulTail(a, b) == a[2] * b[6] + a[3] * b[5] + a[4] * b[4] + a[5] * b[3] + a[6] * b[2]
BigMul(a, b) ==
    BigNorm(<<a[1] * b[1],
              a[1] * b[2] + a[2] * b[1],
              a[1] * b[3] + a[2] * b[2] + a[3] * b[1],
              a[1] * b[4] + a[2] * b[3] + a[3] * b[2] + a[4] * b[1],
              a[1] * b[5] + a[2] * b[4] + a[3] * b[3] + a[4] * b[2] + a[5] * b[1],
              a[1] * b[6] + a[2] * b[5] + a[3] * b[4] + a[4] * b[3] + a[5] * b[2]
                  + a[6] * b[1] + (BigMulTail(a, b) \div 16384)>>)

\* a - b, and whether a number is negative
BigSub(a, b) == BigNorm([i \in 1..6 |-> a[i] - b[i]])
BigNeg(a) == a[1] < 0

BigOne == <<1, 0, 0, 0, 0, 0>>
BigZero == <<0, 0, 0, 0, 0, 0>>
\* pi / 2 = 1.5707963267948966..., the double nearest to it, and 2 / pi
BigHalfPi == <<1, 9351, 15188, 4363, 4484, 6754>>
BigHpi == <<1, 9351, 15188, 4363, 4480, 0>>
BigTwoOverPi == <<0, 10430, 6198, 14649, 1045, 2687>>

\* the coefficients of the two polynomials of sinf and cosf
\*   sin r = r - S1 r^3 + S2 r^5 - S3 r^7
\*   cos r = 1 - C1 r^2 + C2 r^4 - C3 r^6 + C4 r^8
\* each a double, written out in full
BigS == <<<<0, 2730, 10891, 3245, 3078, 0>>, <<0, 136, 8428, 657, 8568, 8192>>,
          <<0, 3, 3239, 5742, 14951, 9344>>>>
BigC == <<<<0, 8191, 16383, 4294, 2160, 0>>, <<0, 682, 10911, 525, 1932, 8192>>,
          <<0, 22, 12321, 16009, 10454, 7424>>, <<0, 0, 6547, 4288, 10175, 8972>>>>

\* c[i] - z * (c[i+1] - z * (c[i+2] - ...)): a polynomial with alternating
\* signs in Horner's form
RECURSIVE BigSeries(_, _, _)
BigSeries(z, c, i) ==
    IF i = Len(c) THEN c[i]
    ELSE BigSub(c[i], BigMul(z, BigSeries(z, c, i + 1)))

\* the two polynomials for 0 <= r < 1
BigSin(r) == BigMul(r, BigSeries(BigMul(r, r), <<BigOne>> \o BigS, 1))
BigCos(r) == BigSeries(BigMul(r, r), <<BigOne>> \o BigC, 1)

\* digit k of m * 2^e (k = 0 for the whole part), m < 2^24 and e <= -7; the
\* digit stands s = e + 14 * k binary places to the left of m's last
BigDigitAt(m, k, s) ==
    IF s >= 14 \/ s <= -24 THEN 0
    ELSE IF s >= 0 THEN (m % (2^(14 - s))) * (2^s)
    ELSE IF k = 0 THEN m \div (2^(-s))
    ELSE (m \div (2^(-s))) % 16384
BigDigit(m, e, k) == BigDigitAt(m, k, e + 14 * k)

\* |x| for an f32 x with 2^-12 <= |x| < 2^15
BigOfF(x) == [k \in 1..6 |-> BigDigit(Mant(x), Expo(x), k - 1)]

\* the f32 nearest to a number a > 0 below 2: the first digits that are not
\* 0, up to 30 binary digits (two digits m2, moved t places to the left and
\* filled from the third), and whether anything follows them
BigFirst(a) == CHOOSE i \in 1..6 : a[i] # 0 /\ \A h \in 1..(i - 1) : a[h] = 0
BigAt(a, i) == IF i <= 6 THEN a[i] ELSE 0
BigToFShift(neg, a, j, m2, t) ==
    Pack(neg, m2 * (2^t) + (BigAt(a, j + 2) \div (2^(14 - t))), -14 * j - t,
         BigAt(a, j + 2) % (2^(14 - t)) # 0 \/ \E i \in (j + 3)..6 : a[i] # 0)
BigToFTop(neg, a, j, m2) ==
    BigToFShift(neg, a, j, m2, IF Bits(m2) >= 16 THEN 30 - Bits(m2) ELSE 14)
BigToFFrom(neg, a, j) == BigToFTop(neg, a, j, BigAt(a, j) * 16384 + BigAt(a, j + 1))
BigToF(neg, a) == BigToFFrom(neg, a, BigFirst(a))

\* |x| = n * hpi + rho with |rho| <= pi / 4 (nearly): <<n, rho < 0, |rho|>>.
\* n is |x| * 2 / pi rounded, a half up; hpi is the double nearest pi / 2
\* below 120 (reduce_fast) and pi / 2 itself from 120 on (reduce_large)
ReduceSigned(n, rho) ==
    IF BigNeg(rho) THEN <<n, TRUE, BigSub(BigZero, rho)>> ELSE <<n, FALSE, rho>>
ReduceBy(a, n, hpi) == ReduceSigned(n, BigSub(a, BigNorm([i \in 1..6 |-> n * hpi[i]])))
ReduceFrom(a, t) ==
    ReduceBy(a, t[1] + (IF t[2] >= 8192 THEN 1 ELSE 0), IF a[1] < 120 THEN BigHpi ELSE BigHalfPi)
ReduceBig(a) == ReduceFrom(a, BigMul(a, BigTwoOverPi))
Reduce(x) == ReduceBig(BigOfF(x))

\* sin x and cos x for x = +-(n * pi / 2 + rho), from n modulo 4
SinReduced(x, q, neg, r) ==
    IF q % 2 = 0 THEN BigToF(((x < 0) # neg) # (q = 2), BigSin(r))
    ELSE BigToF((x < 0) # (q = 3), BigCos(r))
CosReduced(q, neg, r) ==
    IF q % 2 = 0 THEN BigToF(q = 2, BigCos(r))
    ELSE BigToF(neg # (q = 1), BigSin(r))
SinOf(x, p) == SinReduced(x, p[1] % 4, p[2], p[3])
CosOf(p) == CosReduced(p[1] % 4, p[2], p[3])

\* f32::sin and f32::cos for |x| < 2^15; below 2^-12 sinf gives x and cosf 1
SinF(x) == IF Abs(x) < 964689920 THEN x ELSE SinOf(x, Reduce(x))
CosF(x) == IF Abs(x) < 964689920 THEN 1065353216 ELSE CosOf(Reduce(x))

\* wall-clock deltas Instant::now() may measure between two iterations, ns
WallDeltas == {0, 5000000, 16666666, 20000000, 250000000}

\* x velocities of the moving entity, px/s
LoopVelocities == {10, -5}

\* GameLoop::run passes target_frame_time.as_secs_f32() to update_fn,
\* game_loop.rs:60
FixedDt == AsSecsF32(TargetFrameTime \div NanosPerSec, TargetFrameTime % NanosPerSec)

(***************************************************************************)
(* System pipelines.  A pipeline is the sequence of DispatcherBuilder::with *)
(* calls: the name, the names it must run after, and the component and      *)
(* resource sets its SystemData reads and writes.                           *)
(*                                                                         *)
(* Dispatcher::dispatch (specs crate) runs every system once.  A system is  *)
(* started only when every system named in its `after` list has finished    *)
(* and every system registered before it whose access conflicts with its    *)
(* own has finished; systems not ordered in this way may run in parallel.   *)
(***************************************************************************)
Sys(n, a, r, w) == [name |-> n, after |-> a, reads |-> r, writes |-> w]

\* SystemData of the systems of src/systems.rs
PhysicsSystem(n, a) == Sys(n, a, {"Acceleration", "Time"}, {"Position", "Velocity"})
CleanupSystem(n, a) == Sys(n, a, {"Entities", "MarkedForRemoval"}, {})
HealthSystem(n, a) == Sys(n, a, {"Entities"}, {"Health", "MarkedForRemoval"})
DebugSystem(n, a) == Sys(n, a, {"Position", "Velocity", "Health", "Time"}, {})
InputSystem(n, a) == Sys(n, a, {"InputState", "Player"}, {"Velocity"})
RenderingSystem(n, a) == Sys(n, a, {"Position", "Renderable", "Time"}, {})

\* Game::new, lib.rs:104-108
GamePipeline ==
    << PhysicsSystem("physics", {}),
       RenderingSystem("rendering", {"physics"}),
       InputSystem("input", {}) >>

\* SystemData of the systems of demos/pong_demo.rs
PongInputSystem(n, a) == Sys(n, a, {"Paddle", "InputState"}, {"Velocity"})
PongAISystem(n, a) == Sys(n, a, {"Position", "Paddle", "Ball", "Time"}, {"Velocity"})
PongCollisionSystem(n, a) ==
    Sys(n, a, {"Entities", "Position", "Ball", "Paddle"}, {"Velocity", "GameState"})
PongGameLogicSystem(n, a) ==
    Sys(n, a, {"Ball", "Time"}, {"Position", "Velocity", "GameState"})
PongRenderingSystem(n, a) ==
    Sys(n, a, {"Position", "Renderable", "Paddle", "Ball", "GameState", "Time"}, {})

\* demos/pong_demo.rs:68-75
PongDemoPipeline ==
    << PongInputSystem("input", {}),
       PongAISystem("ai", {"input"}),
       PhysicsSystem("physics", {"ai"}),
       PongCollisionSystem("collision", {"physics"}),
       PongGameLogicSystem("game_logic", {"collision"}),
       PongRenderingSystem("rendering", {"game_logic"}) >>

\* SystemData of the systems of demos/breakout.rs
BreakoutInputSystem(n, a) == Sys(n, a, {"Paddle"}, {"Velocity"})
BreakoutPhysicsSystem(n, a) == Sys(n, a, {"Ball", "Time"}, {"Position", "Velocity"})
BreakoutCollisionSystem(n, a) ==
    Sys(n, a, {"Entities", "Ball", "Paddle", "Brick", "PowerUp"}, {"Position", "Velocity"})
BreakoutGameLogicSystem(n, a) == Sys(n, a, {"Position", "Velocity", "Ball", "Brick"}, {})
BreakoutRenderingSystem(n, a) ==
    Sys(n, a, {"Position", "Renderable", "Paddle", "Ball", "Brick"}, {})

\* demos/breakout.rs:122-128
BreakoutPipeline ==
    << BreakoutInputSystem("input", {}),
       BreakoutPhysicsSystem("physics", {"input"}),
       BreakoutCollisionSystem("collision", {"physics"}),
       BreakoutGameLogicSystem("game_logic", {"collision"}),
       BreakoutRenderingSystem("rendering", {"game_logic"}) >>

Names(P) == {P[i].name : i \in 1..Len(P)}

\* two systems conflict when one writes a set the other reads or writes
ConflictWritesOnly(s, t) == s.writes \cap t.writes # {}
Conflict(s, t) ==
    \/ s.writes \cap (t.reads \cup t.writes) # {}
    \/ t.writes \cap (s.reads \cup s.writes) # {}

\* the systems that must have finished before P[j] starts
Before(P, j) ==
    {P[i].name : i \in {k \in 1..Len(P) :
        \/ P[k].name \in P[j].after
        \/ k < j /\ Conflict(P[k], P[j])}}

CanStart(P, j, running, done) ==
    /\ P[j].name \notin running \cup done
    /\ Before(P, j) \subseteq done

(***************************************************************************)
(* The ECS world (specs crate World, as set up by init(), lib.rs:55-91).    *)
(*                                                                         *)
(* A World is a record: alive (the registry's live entities), killed (live  *)
(* entities on which Entities::delete was called; they stay alive and keep  *)
(* their components until World::maintain), and one storage per component   *)
(* type, a function from the entities that hold the component.             *)
(***************************************************************************)
Ids == 1..MaxEntities

EmptyWorld ==
    [alive |-> {}, killed |-> {}, pos |-> <<>>, vel |-> <<>>, acc |-> <<>>,
     health |-> <<>>, marked |-> {}, player |-> {}]

\* the entities a client builds with create_entity_with_components().with(..),
\* after demos/ecs_demo.rs:63-98 (player, enemy, static object); the enemy also
\* carries an Acceleration so that both loops of PhysicsSystem act, and the
\* last entity is a body at rest at the origin under gravity.
\* Position is held as 3600*p, Velocity as 60*v.
Templates ==
    { [pos |-> <<0, 0>>, vel |-> <<600, 300>>, acc |-> <<>>, health |-> <<100>>,
       player |-> TRUE],
      [pos |-> <<0, 360000>>, vel |-> <<-300, 0>>, acc |-> <<0, 98>>,
       health |-> <<50>>, player |-> FALSE],
      [pos |-> <<-360000, -180000>>, vel |-> <<>>, acc |-> <<>>, health |-> <<>>,
       player |-> FALSE],
      [pos |-> <<0, 0>>, vel |-> <<0, 0>>, acc |-> <<0, 98>>, health |-> <<>>,
       player |-> FALSE] }

\* Health::new, components.rs:132-137
HealthNew(maximum) == [current |-> maximum, maximum |-> maximum]

\* ecs.rs:43-50, EntityBuilder::with for each component of template t
Spawn(w, e, t) ==
    [w EXCEPT
        !.alive = @ \cup {e},
        !.pos = [x \in DOMAIN @ \cup {e} |-> IF x = e THEN t.pos ELSE @[x]],
        !.vel = IF t.vel = <<>> THEN @
                ELSE [x \in DOMAIN @ \cup {e} |-> IF x = e THEN t.vel ELSE @[x]],
        !.acc = IF t.acc = <<>> THEN @
                ELSE [x \in DOMAIN @ \cup {e} |-> IF x = e THEN t.acc ELSE @[x]],
        !.health = IF t.health = <<>> THEN @
                   ELSE [x \in DOMAIN @ \cup {e} |-> IF x = e THEN HealthNew(t.health[1]) ELSE @[x]],
        !.player = IF t.player THEN @ \cup {e} ELSE @]

RECURSIVE SpawnAll(_, _)
SpawnAll(w, ts) ==
    IF ts = <<>> THEN w
    ELSE SpawnAll(Spawn(w, Cardinality(w.alive) + 1, Head(ts)), Tail(ts))

\* Entities::is_alive and Storage::get
IsAlive(w, e) == e \in w.alive
Absent == <<>>
Get(w, st, e) == IF e \in DOMAIN st /\ IsAlive(w, e) THEN <<st[e]>> ELSE Absent

\* Entities::delete: the entity is only recorded as killed
DeleteEager(w, e) == [w EXCEPT !.alive = @ \ {e}]
Delete(w, e) == [w EXCEPT !.killed = @ \cup {e}]

RECURSIVE DeleteAll(_, _)
DeleteAll(w, es) ==
    IF es = {} THEN w
    ELSE LET e == CHOOSE x \in es : TRUE IN DeleteAll(Delete(w, e), es \ {e})

\* Health::is_alive, components.rs:139-141
HealthIsAlive(h) == h.current > 0

\* Health::take_damage, components.rs:143-145
TakeDamageTo(h, damage) ==
    [h EXCEPT !.current = IF h.current - damage > 0 THEN h.current - damage ELSE 0]

\* Health::heal, components.rs:147-149
HealTo(h, amount) ==
    [h EXCEPT !.current = IF h.current + amount < h.maximum THEN h.current + amount
                          ELSE h.maximum]

\* the amounts a client passes to take_damage and heal
HealthAmounts == {40, 100}

\* a step that moves every position by the velocity of before the step
PhysicsRunExplicit(w, dt) ==
    [w EXCEPT
        !.vel = [e \in DOMAIN w.vel |->
                    IF e \in DOMAIN w.acc
                    THEN <<w.vel[e][1] + w.acc[e][1] * dt, w.vel[e][2] + w.acc[e][2] * dt>>
                    ELSE w.vel[e]],
        !.pos = [e \in DOMAIN w.pos |->
                    IF e \in DOMAIN w.vel
                    THEN <<w.pos[e][1] + w.vel[e][1] * dt, w.pos[e][2] + w.vel[e][2] * dt>>
                    ELSE w.pos[e]]]

\* PhysicsSystem::run, systems.rs:19-31, with Time.delta = dt sixtieths of a second
PhysicsRun(w, dt) ==
    LET vel1 == [e \in DOMAIN w.vel |->
                    IF e \in DOMAIN w.acc
                    THEN <<w.vel[e][1] + w.acc[e][1] * dt, w.vel[e][2] + w.acc[e][2] * dt>>
                    ELSE w.vel[e]]
        pos1 == [e \in DOMAIN w.pos |->
                    IF e \in DOMAIN vel1
                    THEN <<w.pos[e][1] + vel1[e][1] * dt, w.pos[e][2] + vel1[e][2] * dt>>
                    ELSE w.pos[e]]
    IN [w EXCEPT !.vel = vel1, !.pos = pos1]

\* HealthSystem::run, systems.rs:57-63
HealthRunDropsDead(w) ==
    [w EXCEPT !.health = [e \in {x \in DOMAIN @ : HealthIsAlive(@[x])} |-> @[e]]]
HealthRun(w) ==
    [w EXCEPT !.marked =
        @ \cup {e \in w.alive \cap DOMAIN w.health : ~HealthIsAlive(w.health[e])}]

\* CleanupSystem::run, systems.rs:40-44: the join of entities and marked, and
\* entities.delete on each
CleanupTargets(w) == w.alive \cap w.marked
CleanupRun(w) == DeleteAll(w, CleanupTargets(w))

\* InputSystem::run, systems.rs:120-152; velocities are held as 60*v
InputRun(w, keys) ==
    LET vx == IF "Right" \in keys THEN 6000 ELSE IF "Left" \in keys THEN -6000 ELSE 0
        vy == IF "Down" \in keys THEN 6000 ELSE IF "Up" \in keys THEN -6000 ELSE 0
    IN [w EXCEPT !.vel = [e \in DOMAIN @ |->
                              IF e \in w.player THEN <<vx, vy>> ELSE @[e]]]

\* the run of the system registered under name n (DebugSystem and
\* RenderingSystem, systems.rs:77-88 and 165-176, only print)
RunSystem(n, w, keys) ==
    CASE n = "physics" -> PhysicsRun(w, 1)
      [] n = "health" -> HealthRun(w)
      [] n = "cleanup" -> CleanupRun(w)
      [] n = "input" -> InputRun(w, keys)
      [] OTHER -> w

\* World::maintain: the killed entities leave the registry and every storage
DropFrom(st, K) == [e \in DOMAIN st \ K |-> st[e]]
Maintain(w) ==
    [alive |-> w.alive \ w.killed, killed |-> {},
     pos |-> DropFrom(w.pos, w.killed), vel |-> DropFrom(w.vel, w.killed),
     acc |-> DropFrom(w.acc, w.killed), health |-> DropFrom(w.health, w.killed),
     marked |-> w.marked \ w.killed, player |-> w.player \ w.killed]

\* demos/ecs_demo.rs:16-21
EcsDemoPipeline ==
    << PhysicsSystem("physics", {}),
       HealthSystem("health", {}),
       CleanupSystem("cleanup", {}),
       DebugSystem("debug", {}) >>

PipelineOf(prog) == IF prog = "ecs_demo" THEN EcsDemoPipeline ELSE GamePipeline

\* the systems of P run one after the other in registration order
RECURSIVE SeqRun(_, _, _)
SeqRun(P, w, keys) ==
    IF P = <<>> THEN w ELSE SeqRun(Tail(P), RunSystem(Head(P).name, w, keys), keys)

KeySets == {{}, {"Left"}, {"Right", "Up"}}

\* the variables of GameLoop while another specification runs
LoopIdle ==
    /\ gl_pc = "off"
    /\ accumulator = 0
    /\ frame_count = 0
    /\ timeDelta = 0
    /\ timeElapsed = 0
    /\ gl_pos = 0
    /\ gl_vel = 0
    /\ gl_running = {}
    /\ gl_done = {}
    /\ quit = FALSE
    /\ accAtIterStart = 0
    /\ iterDispatches = 0
    /\ lastDelta = 0
    /\ dispatches = 0
    /\ maintains = 0
    /\ clampedTotal = 0

\* the variables of the demo dispatchers while another specification runs
PipeIdle ==
    /\ pp_prog = "none"
    /\ pp_pc = "idle"
    /\ pp_running = {}
    /\ pp_done = {}
    /\ pp_ticks = 0

\* the variables of BreakoutGame while another specification runs
BkIdle ==
    /\ bk_pc = "off"
    /\ bk_state = "Menu"
    /\ bk_delta = 0
    /\ bk_elapsed = 0
    /\ bk_ball = <<>>
    /\ bk_oldBall = <<>>
    /\ bk_bricks = {}
    /\ bk_paddles = 0
    /\ bk_gen = 0
    /\ bk_lives = 0
    /\ bk_level = 0
    /\ bk_remaining = 0
    /\ bk_updates = 0
    /\ bk_dispatches = 0
    /\ bk_dispatchDelta = 0

\* the variables of the two pong runs while another specification runs
DetIdle ==
    /\ det_wA = <<>>
    /\ det_wB = <<>>
    /\ det_eA = 0
    /\ det_eB = 0
    /\ det_tick = 0

\* the variables of the single pong run while another specification runs
PgIdle ==
    /\ pg_w = <<>>
    /\ pg_e = 0
    /\ pg_tick = 0
    /\ pg_mid = <<>>

\* the variables of the single collision step while another specification runs
ColIdle ==
    /\ col_in = <<>>
    /\ col_out = <<>>
    /\ col_imp = <<>>
    /\ col_done = FALSE

\* the variables of the client of Game::update while another specification runs
NfIdle ==
    /\ nf_w = <<>>
    /\ nf_delta = <<>>
    /\ nf_elapsed = <<>>
    /\ nf_updates = 0

\* the variables of the ScoringSystem while another specification runs
ScIdle ==
    /\ sc_scores = <<>>
    /\ sc_ach = <<>>
    /\ sc_ops = 0
    /\ sc_met = {}

\* the variables of the MenuSystem while another specification runs
MnIdle ==
    /\ mn_items = <<>>
    /\ mn_sel = 0
    /\ mn_nav = FALSE
    /\ mn_pc = "off"
    /\ mn_idx = 0
    /\ mn_ops = 0
    /\ mn_trail = <<>>

\* the variables of the DifficultySystem while another specification runs
DfIdle ==
    /\ df_level = "none"
    /\ df_configs = {}
    /\ df_custom = FALSE
    /\ df_panicked = FALSE
    /\ df_ops = 0
    /\ df_trail = <<>>

\* the variables of the StateManager while another specification runs
StIdle ==
    /\ st_states = {}
    /\ st_stack = <<>>
    /\ st_ops = 0
    /\ st_enters = <<>>
    /\ st_exits = <<>>
    /\ st_result = "off"
    /\ st_before = <<>>

\* the variables of the ECS world while another specification runs
EcsIdle ==
    /\ ecs_prog = "none"
    /\ ecs_pc = "idle"
    /\ ecs_w = EmptyWorld
    /\ ecs_keys = {}
    /\ ecs_running = {}
    /\ ecs_done = {}
    /\ ecs_ticks = 0
    /\ ecs_w0 = EmptyWorld
    /\ ecs_deleted = {}
    /\ ecs_reaped = {}

\* init() and the client's entities; the loop has not started
EcsInit ==
    /\ ecs_prog \in {"ecs_demo", "game"}
    /\ ecs_pc = "idle"
    /\ \E ts \in [1..MaxEntities -> Templates] : ecs_w = SpawnAll(EmptyWorld, ts)
    /\ ecs_keys = {}
    /\ ecs_running = {}
    /\ ecs_done = {}
    /\ ecs_ticks = 0
    /\ ecs_w0 = EmptyWorld
    /\ ecs_deleted = {}
    /\ ecs_reaped = {}
    /\ LoopIdle
    /\ PipeIdle
    /\ BkIdle
    /\ DetIdle
    /\ PgIdle
    /\ ColIdle
    /\ NfIdle
    /\ ScIdle
    /\ MnIdle
    /\ DfIdle
    /\ StIdle

\* between two ticks the client damages an entity (Health::take_damage) or
\* heals it (Health::heal); neither looks at is_alive
ClientDamage ==
    /\ ecs_pc = "idle"
    /\ \E e \in DOMAIN ecs_w.health, amount \in HealthAmounts :
          /\ TakeDamageTo(ecs_w.health[e], amount) # ecs_w.health[e]
          /\ ecs_w' = [ecs_w EXCEPT !.health[e] = TakeDamageTo(@, amount)]
    /\ UNCHANGED <<ecs_prog, ecs_pc, ecs_keys, ecs_running, ecs_done, ecs_ticks,
                   ecs_w0, ecs_deleted, ecs_reaped>>
    /\ UNCHANGED notEcsVars

ClientHeal ==
    /\ ecs_pc = "idle"
    /\ \E e \in DOMAIN ecs_w.health, amount \in HealthAmounts :
          /\ HealTo(ecs_w.health[e], amount) # ecs_w.health[e]
          /\ ecs_w' = [ecs_w EXCEPT !.health[e] = HealTo(@, amount)]
    /\ UNCHANGED <<ecs_prog, ecs_pc, ecs_keys, ecs_running, ecs_done, ecs_ticks,
                   ecs_w0, ecs_deleted, ecs_reaped>>
    /\ UNCHANGED notEcsVars

\* between two ticks the client tags an entity: write_storage::<MarkedForRemoval>()
\* .insert(e, MarkedForRemoval)
ClientMark ==
    /\ ecs_pc = "idle"
    /\ \E e \in ecs_w.alive \ ecs_w.marked :
          ecs_w' = [ecs_w EXCEPT !.marked = @ \cup {e}]
    /\ UNCHANGED <<ecs_prog, ecs_pc, ecs_keys, ecs_running, ecs_done, ecs_ticks,
                   ecs_w0, ecs_deleted, ecs_reaped>>
    /\ UNCHANGED notEcsVars

\* between two ticks the input layer stores the keys held
ClientKeys ==
    /\ ecs_pc = "idle"
    /\ \E k \in KeySets \ {ecs_keys} : ecs_keys' = k
    /\ UNCHANGED <<ecs_prog, ecs_pc, ecs_w, ecs_running, ecs_done, ecs_ticks,
                   ecs_w0, ecs_deleted, ecs_reaped>>
    /\ UNCHANGED notEcsVars

\* ecs_demo.rs:38-42, lib.rs:115-119: the time is stored, dispatch is entered
EcsDispatch ==
    /\ ecs_pc = "idle"
    /\ ecs_ticks < MaxTicks
    /\ ecs_pc' = "dispatch"
    /\ ecs_running' = {}
    /\ ecs_done' = {}
    /\ ecs_w0' = ecs_w
    /\ ecs_deleted' = {}
    /\ UNCHANGED <<ecs_prog, ecs_w, ecs_keys, ecs_ticks, ecs_reaped>>
    /\ UNCHANGED notEcsVars

\* inside dispatch a system starts
EcsStart ==
    /\ ecs_pc = "dispatch"
    /\ \E j \in 1..Len(PipelineOf(ecs_prog)) :
          /\ CanStart(PipelineOf(ecs_prog), j, ecs_running, ecs_done)
          /\ ecs_running' = ecs_running \cup {PipelineOf(ecs_prog)[j].name}
    /\ UNCHANGED <<ecs_prog, ecs_pc, ecs_w, ecs_keys, ecs_done, ecs_ticks, ecs_w0,
                   ecs_deleted, ecs_reaped>>
    /\ UNCHANGED notEcsVars

\* a running system finishes, its run applied to the World
EcsFinish ==
    /\ ecs_pc = "dispatch"
    /\ \E n \in ecs_running :
          /\ ecs_running' = ecs_running \ {n}
          /\ ecs_done' = ecs_done \cup {n}
          /\ ecs_w' = RunSystem(n, ecs_w, ecs_keys)
          /\ ecs_deleted' = IF n = "cleanup" THEN ecs_deleted \cup CleanupTargets(ecs_w)
                            ELSE ecs_deleted
    /\ UNCHANGED <<ecs_prog, ecs_pc, ecs_keys, ecs_ticks, ecs_w0, ecs_reaped>>
    /\ UNCHANGED notEcsVars

\* ecs_demo.rs:43, lib.rs:120: dispatch has returned, world.maintain()
EcsMaintain ==
    /\ ecs_pc = "dispatch"
    /\ ecs_done = Names(PipelineOf(ecs_prog))
    /\ ecs_w' = Maintain(ecs_w)
    /\ ecs_reaped' = ecs_reaped \cup ecs_deleted
    /\ ecs_ticks' = ecs_ticks + 1
    /\ ecs_pc' = "idle"
    /\ UNCHANGED <<ecs_prog, ecs_keys, ecs_running, ecs_done, ecs_w0, ecs_deleted>>
    /\ UNCHANGED notEcsVars

EcsNext ==
    \/ ClientDamage
    \/ ClientHeal
    \/ ClientMark
    \/ ClientKeys
    \/ EcsDispatch
    \/ EcsStart
    \/ EcsFinish
    \/ EcsMaintain

SpecEcs == EcsInit /\ [][EcsNext]_vars

(***************************************************************************)
(* GameLoop::run, with update_fn = Game::update                            *)
(***************************************************************************)
\* "Prevent spiral of death": the clamp of game_loop.rs:52-54
ClampNoop(delta) == delta
Clamp(delta) == IF delta > MaxFrameTimeNs THEN MaxFrameTimeNs ELSE delta

LoopInit ==
    /\ gl_pc = "measure"
    /\ accumulator = 0
    /\ frame_count = 0
    /\ timeDelta = 0
    /\ timeElapsed = 0
    /\ gl_pos = 0
    /\ gl_vel \in {F32(v) : v \in LoopVelocities}
    /\ gl_running = {}
    /\ gl_done = {}
    /\ quit = FALSE
    /\ accAtIterStart = 0
    /\ iterDispatches = 0
    /\ lastDelta = 0
    /\ dispatches = 0
    /\ maintains = 0
    /\ clampedTotal = 0
    /\ EcsIdle
    /\ PipeIdle
    /\ BkIdle
    /\ DetIdle
    /\ PgIdle
    /\ ColIdle
    /\ NfIdle
    /\ ScIdle
    /\ MnIdle
    /\ DfIdle
    /\ StIdle

\* game_loop.rs:47-56: measure, clamp, accumulate
Measure ==
    /\ gl_pc = "measure"
    /\ frame_count < MaxFrames
    /\ \E d \in WallDeltas :
          /\ lastDelta' = d
          /\ accumulator' = accumulator + Clamp(d)
          /\ clampedTotal' = clampedTotal + Clamp(d)
    /\ accAtIterStart' = accumulator
    /\ iterDispatches' = 0
    /\ gl_pc' = "while"
    /\ UNCHANGED <<frame_count, timeDelta, timeElapsed, gl_pos, gl_vel, gl_running,
                   gl_done, quit, dispatches, maintains>>
    /\ UNCHANGED notLoopVars

\* game_loop.rs:59-61 and lib.rs:113-119: the inner loop test; when it passes,
\* update_fn(dt) is entered: Game::update stores the time and calls dispatch
WhileEnter ==
    /\ gl_pc = "while"
    /\ accumulator >= TargetFrameTime
    /\ timeDelta' = FixedDt
    /\ timeElapsed' = AddF(timeElapsed, FixedDt)
    /\ dispatches' = dispatches + 1
    /\ iterDispatches' = iterDispatches + 1
    /\ gl_running' = {}
    /\ gl_done' = {}
    /\ gl_pc' = "dispatch"
    /\ UNCHANGED <<accumulator, frame_count, gl_pos, gl_vel, quit, accAtIterStart,
                   lastDelta, maintains,
                   clampedTotal>>
    /\ UNCHANGED notLoopVars

\* game_loop.rs:59: the inner loop test fails, back to the top of the loop
WhileExit ==
    /\ gl_pc = "while"
    /\ accumulator < TargetFrameTime
    /\ gl_pc' = "measure"
    /\ UNCHANGED <<accumulator, frame_count, timeDelta, timeElapsed, gl_pos, gl_vel,
                   gl_running, gl_done, quit, accAtIterStart, iterDispatches,
                   lastDelta, dispatches, maintains,
                   clampedTotal>>
    /\ UNCHANGED notLoopVars

\* lib.rs:119: inside dispatcher.dispatch, a system of the pipeline starts
GameStart ==
    /\ gl_pc = "dispatch"
    /\ \E j \in 1..Len(GamePipeline) :
          /\ CanStart(GamePipeline, j, gl_running, gl_done)
          /\ gl_running' = gl_running \cup {GamePipeline[j].name}
    /\ UNCHANGED <<gl_pc, accumulator, frame_count, timeDelta, timeElapsed, gl_pos,
                   gl_vel, gl_done, quit, accAtIterStart, iterDispatches, lastDelta,
                   dispatches, maintains,
                   clampedTotal>>
    /\ UNCHANGED notLoopVars

\* a running system finishes, its writes made.  PhysicsSystem (systems.rs:26-30)
\* moves the entity by velocity * Time.delta; RenderingSystem prints; InputSystem
\* writes only the velocity of entities that carry Player (the entity does not).
GameFinish ==
    /\ gl_pc = "dispatch"
    /\ \E n \in gl_running :
          /\ gl_running' = gl_running \ {n}
          /\ gl_done' = gl_done \cup {n}
          /\ gl_pos' = IF n = "physics" THEN AddF(gl_pos, MulF(gl_vel, timeDelta)) ELSE gl_pos
    /\ UNCHANGED <<gl_pc, accumulator, frame_count, timeDelta, timeElapsed, gl_vel,
                   quit, accAtIterStart, iterDispatches, lastDelta, dispatches,
                   maintains,
                   clampedTotal>>
    /\ UNCHANGED notLoopVars

\* what Game::update does once dispatch has returned (lib.rs:120): maintain
AfterDispatchSkip(m) == m
AfterDispatch(m) == m + 1

\* lib.rs:119-121: dispatch returns when every system has finished; then
\* world.maintain() is called and Game::update returns
GameMaintain ==
    /\ gl_pc = "dispatch"
    /\ gl_done = Names(GamePipeline)
    /\ maintains' = AfterDispatch(maintains)
    /\ gl_pc' = "account"
    /\ UNCHANGED <<accumulator, frame_count, timeDelta, timeElapsed, gl_pos, gl_vel,
                   gl_running, gl_done, quit, accAtIterStart, iterDispatches,
                   lastDelta, dispatches, clampedTotal>>
    /\ UNCHANGED notLoopVars

\* game_loop.rs:62: one fixed step is taken off the accumulator
DrainedToZero(acc) == 0
Drained(acc) == acc - TargetFrameTime

\* game_loop.rs:62-63: back in the inner loop after update_fn returned
Account ==
    /\ gl_pc = "account"
    /\ accumulator' = Drained(accumulator)
    /\ frame_count' = frame_count + 1
    /\ gl_pc' = "while"
    /\ UNCHANGED <<timeDelta, timeElapsed, gl_pos, gl_vel, gl_running, gl_done, quit,
                   accAtIterStart, iterDispatches, lastDelta, dispatches, maintains,
                   clampedTotal>>
    /\ UNCHANGED notLoopVars

\* the environment raises the quit signal; GameLoop::run has no parameter, field
\* or test through which it could see it (game_loop.rs:46 is a bare `loop`)
RaiseQuit ==
    /\ ~quit
    /\ quit' = TRUE
    /\ UNCHANGED <<gl_pc, accumulator, frame_count, timeDelta, timeElapsed, gl_pos,
                   gl_vel, gl_running, gl_done, accAtIterStart, iterDispatches,
                   lastDelta, dispatches, maintains,
                   clampedTotal>>
    /\ UNCHANGED notLoopVars

LoopNext ==
    \/ Measure
    \/ WhileEnter
    \/ WhileExit
    \/ GameStart
    \/ GameFinish
    \/ GameMaintain
    \/ Account
    \/ RaiseQuit

SpecLoop == LoopInit /\ [][LoopNext]_vars

(***************************************************************************)
(* Claims about the fixed-timestep driver                                  *)
(***************************************************************************)

\* C3: a measured delta above the maximum frame time is clamped before it is
\* accumulated: an outer iteration adds at most max_frame_time to the carry
\* buffer, makes at most floor((carry + max_frame_time) / fixed_step)
\* dispatches, and the carry buffer stays below fixed_step + max_frame_time.
C3_ClampBoundsIteration ==
    /\ accumulator <= accAtIterStart + MaxFrameTimeNs
    /\ iterDispatches <= (accAtIterStart + MaxFrameTimeNs) \div TargetFrameTime
    /\ accumulator < TargetFrameTime + MaxFrameTimeNs

\* a stall longer than max_frame_time was measured and the iteration that
\* measured it has run its dispatches
C3_Witness ==
    /\ lastDelta > MaxFrameTimeNs
    /\ gl_pc = "measure"
    /\ iterDispatches >= MaxFrameTimeNs \div TargetFrameTime

\* C4: once the quit signal is raised the driver starts no further dispatch
C4_QuitStartsNoDispatch == [][quit => dispatches' = dispatches]_vars

\* C5: maintain is called only when the dispatch has returned (no system is
\* running, all have finished), once for each dispatch, and a dispatch starts
\* only when every earlier dispatch has had its maintain.
C5_MaintainBetweenDispatches ==
    [][ /\ (maintains' # maintains =>
              /\ gl_running = {}
              /\ gl_done = Names(GamePipeline)
              /\ maintains' = maintains + 1
              /\ maintains' = dispatches)
        /\ (dispatches' # dispatches =>
              /\ maintains = dispatches
              /\ dispatches' = dispatches + 1)
        /\ (gl_pc = "account" => maintains = dispatches) ]_vars

\* a second dispatch is in progress, the first one maintained
C5_Witness ==
    /\ gl_pc = "dispatch"
    /\ gl_running # {}
    /\ dispatches = 2
    /\ maintains = 1

\* C27: at the end of every outer iteration of GameLoop::run the accumulator
\* is below one fixed step, and frame_count fixed steps plus the accumulator
\* are the sum of the clamped deltas accumulated so far; inside an iteration
\* the sum is kept whenever a step has been accounted for.
C27_NoTimeLostOrInvented ==
    /\ gl_pc = "measure" => accumulator < TargetFrameTime
    /\ gl_pc \in {"measure", "while"} =>
          frame_count * TargetFrameTime + accumulator = clampedTotal

\* an iteration has ended with a carry after a clamped stall and a short frame
C27_Witness ==
    /\ gl_pc = "measure"
    /\ frame_count >= 7
    /\ accumulator > 0
    /\ clampedTotal > MaxFrameTimeNs
    /\ lastDelta = 5000000

(***************************************************************************)
(* The dispatchers of the demos and of Game: which system may run when.     *)
(***************************************************************************)
PipePrograms == {"pong_demo", "breakout", "game"}

DemoPipelineOf(prog) ==
    CASE prog = "pong_demo" -> PongDemoPipeline
      [] prog = "breakout" -> BreakoutPipeline
      [] OTHER -> GamePipeline

\* DispatcherBuilder::build; no dispatch has run
PipeInit ==
    /\ pp_prog \in PipePrograms
    /\ pp_pc = "idle"
    /\ pp_running = {}
    /\ pp_done = {}
    /\ pp_ticks = 0
    /\ LoopIdle
    /\ EcsIdle
    /\ BkIdle
    /\ DetIdle
    /\ PgIdle
    /\ ColIdle
    /\ NfIdle
    /\ ScIdle
    /\ MnIdle
    /\ DfIdle
    /\ StIdle

\* dispatcher.dispatch(&world) is entered
PipeDispatch ==
    /\ pp_pc = "idle"
    /\ pp_ticks < MaxPipeTicks
    /\ pp_pc' = "dispatch"
    /\ pp_running' = {}
    /\ pp_done' = {}
    /\ UNCHANGED <<pp_prog, pp_ticks>>
    /\ UNCHANGED notPipeVars

\* a worker thread starts a system whose predecessors have finished
PipeStart ==
    /\ pp_pc = "dispatch"
    /\ \E j \in 1..Len(DemoPipelineOf(pp_prog)) :
          /\ CanStart(DemoPipelineOf(pp_prog), j, pp_running, pp_done)
          /\ pp_running' = pp_running \cup {DemoPipelineOf(pp_prog)[j].name}
    /\ UNCHANGED <<pp_prog, pp_pc, pp_done, pp_ticks>>
    /\ UNCHANGED notPipeVars

\* a running system returns from run
PipeFinish ==
    /\ pp_pc = "dispatch"
    /\ \E n \in pp_running :
          /\ pp_running' = pp_running \ {n}
          /\ pp_done' = pp_done \cup {n}
    /\ UNCHANGED <<pp_prog, pp_pc, pp_ticks>>
    /\ UNCHANGED notPipeVars

\* dispatch returns once every system has run; world.maintain() follows
PipeMaintain ==
    /\ pp_pc = "dispatch"
    /\ pp_done = Names(DemoPipelineOf(pp_prog))
    /\ pp_pc' = "idle"
    /\ pp_ticks' = pp_ticks + 1
    /\ UNCHANGED <<pp_prog, pp_running, pp_done>>
    /\ UNCHANGED notPipeVars

PipeNext == PipeDispatch \/ PipeStart \/ PipeFinish \/ PipeMaintain

SpecPipe == PipeInit /\ [][PipeNext]_vars

Started == pp_running \cup pp_done

\* the game-logic steps of a pipeline: its gameplay systems, that is input, AI
\* and game logic (the engine's description counts input and AI as gameplay
\* logic); everything but physics, collision and rendering
GameLogicSteps(P) == Names(P) \ {"physics", "collision", "rendering"}

\* C6: in every dispatch the physics step has finished when the collision
\* step starts, and the collision step has finished when any game-logic step
\* (input, AI, game logic) starts.
C6_CollisionBeforeAnyGameLogic ==
    (pp_pc = "dispatch" /\ "collision" \in Names(DemoPipelineOf(pp_prog))) =>
        /\ "collision" \in Started => "physics" \in pp_done
        /\ \A n \in GameLogicSteps(DemoPipelineOf(pp_prog)) :
              n \in Started => "collision" \in pp_done

(***************************************************************************)
(* Claims about the dispatcher and the entity lifecycle                    *)
(***************************************************************************)
Storages(w) == <<w.pos, w.vel, w.acc, w.health>>
HoldsNothing(w, e) ==
    /\ \A k \in 1..4 : e \notin DOMAIN Storages(w)[k]
    /\ e \notin w.marked
    /\ e \notin w.player

\* C7: within one dispatch no system that declares a write on a set executes
\* together with a system that reads or writes that set; a system has started
\* only if every system registered before it that writes what it reads or
\* writes has finished; and when the dispatch has run every system the World
\* is the one a sequential run in registration order produces.
C7_WritersExclusive ==
    LET P == PipelineOf(ecs_prog) IN
    ecs_pc = "dispatch" =>
        /\ \A i, j \in 1..Len(P) :
              (i # j /\ P[i].name \in ecs_running /\ P[j].name \in ecs_running) =>
                  P[i].writes \cap (P[j].reads \cup P[j].writes) = {}
        /\ \A i, j \in 1..Len(P) :
              (/\ i < j
               /\ P[j].name \in ecs_running \cup ecs_done
               /\ \/ P[i].writes \cap (P[j].reads \cup P[j].writes) # {}
                  \/ P[j].writes \cap P[i].reads # {}) =>
                  P[i].name \in ecs_done
        /\ ecs_done = Names(P) => ecs_w = SeqRun(P, ecs_w0, ecs_keys)

\* HealthSystem has written its tags while PhysicsSystem is still executing
C7_Witness ==
    /\ ecs_prog = "ecs_demo"
    /\ "physics" \in ecs_running
    /\ "health" \in ecs_done
    /\ ecs_w.marked # ecs_w0.marked

\* C8: an entity deleted during a dispatch is alive and get returns each of
\* its components until maintain is called; once maintain has run it is not
\* alive and get returns absent for every storage.
C8_DestroyedQueryableUntilMaintain ==
    \A e \in Ids :
        /\ (ecs_pc = "dispatch" /\ e \in ecs_deleted) =>
              /\ IsAlive(ecs_w, e)
              /\ \A k \in 1..4 :
                    e \in DOMAIN Storages(ecs_w0)[k] =>
                        Get(ecs_w, Storages(ecs_w)[k], e) # Absent
        /\ e \in ecs_reaped =>
              /\ ~IsAlive(ecs_w, e)
              /\ \A k \in 1..4 : Get(ecs_w, Storages(ecs_w)[k], e) = Absent

\* one entity was removed by an earlier maintain, another is deleted and
\* waits for the maintain of the dispatch in progress
C8_Witness ==
    /\ ecs_pc = "dispatch"
    /\ ecs_reaped # {}
    /\ ecs_deleted # {}
    /\ "cleanup" \in ecs_done

\* C9: every entity that carries MarkedForRemoval when maintain is reached is
\* deleted by that maintain: afterwards it is not alive and no storage holds
\* a component for it.
C9_MarkedDeletedAtMaintain ==
    [][ (ecs_pc = "dispatch" /\ ecs_pc' = "idle") =>
            \A e \in ecs_w.alive \cap ecs_w.marked :
                ~IsAlive(ecs_w', e) /\ HoldsNothing(ecs_w', e) ]_vars

Sizes(w) ==
    <<Cardinality(w.alive), Cardinality(DOMAIN w.pos), Cardinality(DOMAIN w.vel),
      Cardinality(DOMAIN w.acc), Cardinality(DOMAIN w.health), Cardinality(w.player)>>

\* C10 as stated: while a dispatch is in progress the entity set and every
\* component storage keep their size.
C10_SizesStableInDispatch ==
    [][ (ecs_pc = "dispatch" /\ ecs_pc' = "dispatch") =>
            /\ Sizes(ecs_w') = Sizes(ecs_w)
            /\ Cardinality(ecs_w'.marked) = Cardinality(ecs_w.marked) ]_vars

\* C10 as amended: while a dispatch is in progress the entity set and every
\* storage other than MarkedForRemoval keep their entries and the
\* MarkedForRemoval storage only gains entries; entities and storage entries
\* are removed by maintain alone.
C10_OnlyMarksGrowInDispatch ==
    [][ /\ (ecs_pc = "dispatch" /\ ecs_pc' = "dispatch") =>
              /\ ecs_w'.alive = ecs_w.alive
              /\ \A k \in 1..4 : DOMAIN Storages(ecs_w')[k] = DOMAIN Storages(ecs_w)[k]
              /\ ecs_w'.player = ecs_w.player
              /\ ecs_w.marked \subseteq ecs_w'.marked
        /\ ~(ecs_pc = "dispatch" /\ ecs_pc' = "idle") =>
              /\ ecs_w.alive \subseteq ecs_w'.alive
              /\ \A k \in 1..4 : DOMAIN Storages(ecs_w)[k] \subseteq DOMAIN Storages(ecs_w')[k]
              /\ ecs_w.marked \subseteq ecs_w'.marked ]_vars

\* HealthSystem has tagged an entity in the dispatch in progress
C10_Witness ==
    /\ ecs_pc = "dispatch"
    /\ Cardinality(ecs_w.marked) > Cardinality(ecs_w0.marked)
    /\ Sizes(ecs_w) = Sizes(ecs_w0)

\* the step PhysicsSystem finishes in this transition
PhysicsStepped == "physics" \in ecs_done' \ ecs_done

\* a body at rest at the origin under the acceleration (0, 98)
AtRestUnderGravity(w, e) ==
    /\ e \in DOMAIN w.pos /\ e \in DOMAIN w.vel /\ e \in DOMAIN w.acc
    /\ w.pos[e] = <<0, 0>> /\ w.vel[e] = <<0, 0>> /\ w.acc[e] = <<0, 98>>

\* C17: the physics step adds acceleration * delta to the velocity first and
\* then moves the position by the updated velocity * delta; from rest at the
\* origin under the acceleration (0, 98) and delta = 1/60 it gives
\* Velocity.y = 98/60 and Position.y = 98/60 * 1/60.
C17_SemiImplicitEuler ==
    [][ PhysicsStepped =>
          \A e \in DOMAIN ecs_w.pos \cap DOMAIN ecs_w.vel :
             /\ ecs_w'.vel[e] = IF e \in DOMAIN ecs_w.acc
                                THEN <<ecs_w.vel[e][1] + ecs_w.acc[e][1],
                                       ecs_w.vel[e][2] + ecs_w.acc[e][2]>>
                                ELSE ecs_w.vel[e]
             /\ ecs_w'.pos[e] = <<ecs_w.pos[e][1] + ecs_w'.vel[e][1],
                                  ecs_w.pos[e][2] + ecs_w'.vel[e][2]>>
             /\ AtRestUnderGravity(ecs_w, e) =>
                   ecs_w'.vel[e] = <<0, 98>> /\ ecs_w'.pos[e] = <<0, 98>> ]_vars

C17_Witness ==
    /\ "physics" \in ecs_done
    /\ ecs_ticks = 0
    /\ \E e \in DOMAIN ecs_w0.pos :
          /\ AtRestUnderGravity(ecs_w0, e)
          /\ ecs_w.vel[e] = <<0, 98>>
          /\ ecs_w.pos[e] = <<0, 98>>

(***************************************************************************)
(* demos/breakout.rs: BreakoutGame and its main loop.                       *)
(*                                                                         *)
(* Every f32 (Position, Velocity, Time.delta, Time.elapsed) is held by its  *)
(* bit pattern and every operation on it is the f32 operation.             *)
(* The dispatcher is a dependency chain (BreakoutPipeline), so one dispatch *)
(* is the systems one after the other.                                      *)
(***************************************************************************)
BK_WINDOW_WIDTH == 800
BK_WINDOW_HEIGHT == 600
BK_PADDLE_WIDTH == 100
BK_PADDLE_HEIGHT == 20
BK_BALL_SIZE == 12
BRICK_WIDTH == 60
BRICK_HEIGHT == 20
BRICK_ROWS == 6
BRICK_COLS == 13
BK_BALL_SPEED == 300
BkStartLives == 3

\* wall-clock time between two calls of update, ns (the loop sleeps 16 ms)
BkWallDeltas == {16000000, 16666666, 33000000, 250000000}

\* the keys handle_input asks for; any of them may be just pressed in a frame
BkKeys == {"Space", "Escape", "R"}

\* std::f32::consts::PI
PiF32 == 1078530011

\* the paddle, initialize_level, breakout.rs:156-168; nothing moves it
BkPaddleX == SubF(DivF(F32(BK_WINDOW_WIDTH), F32(2)), DivF(F32(BK_PADDLE_WIDTH), F32(2)))
BkPaddleY == SubF(F32(BK_WINDOW_HEIGHT), F32(60))

\* the ball, initialize_level, breakout.rs:171-186
BkNewBall ==
    [x |-> SubF(DivF(F32(BK_WINDOW_WIDTH), F32(2)), DivF(F32(BK_BALL_SIZE), F32(2))),
     y |-> SubF(F32(BK_WINDOW_HEIGHT), F32(80)),
     vx |-> 0, vy |-> 0, attached |-> TRUE, alive |-> TRUE, killed |-> FALSE]

\* no ball of an earlier level is in the world
BkNoBall == [BkNewBall EXCEPT !.alive = FALSE]

\* create_bricks, breakout.rs:196-236: brick <<row, col, generation>>; the
\* x of the bricks of a column and the y of the bricks of a row
AllBricks(gen) == {<<r, c, gen>> : r \in 0..(BRICK_ROWS - 1), c \in 0..(BRICK_COLS - 1)}
BrickColX == [c \in 0..(BRICK_COLS - 1) |-> AddF(F32(20), MulF(F32(c), AddF(F32(BRICK_WIDTH), F32(5))))]
BrickRowY == [r \in 0..(BRICK_ROWS - 1) |-> AddF(F32(50), MulF(F32(r), AddF(F32(BRICK_HEIGHT), F32(5))))]
BrickX(b) == BrickColX[b[2]]
BrickY(b) == BrickRowY[b[1]]

\* BreakoutPhysicsSystem::run, breakout.rs:762-767
BkPhysics(b, dt) ==
    IF b.alive THEN [b EXCEPT !.x = AddF(@, MulF(b.vx, dt)),
                              !.y = AddF(@, MulF(b.vy, dt))]
    ELSE b

\* BreakoutCollisionSystem::run, ball-wall part, breakout.rs:788-805
BkMaxX == SubF(F32(BK_WINDOW_WIDTH), F32(BK_BALL_SIZE))
BkWalls(b) ==
    LET b1 == IF b.x <= 0 \/ b.x >= BkMaxX
              THEN [b EXCEPT !.vx = -b.vx,
                             !.x = IF b.x < 0 THEN 0 ELSE IF b.x > BkMaxX THEN BkMaxX ELSE b.x]
              ELSE b
        b2 == IF b1.y <= 0 THEN [b1 EXCEPT !.vy = -b1.vy, !.y = 0] ELSE b1
    IN IF b2.y >= F32(BK_WINDOW_HEIGHT) THEN [b2 EXCEPT !.killed = TRUE] ELSE b2

\* ball-paddle part, breakout.rs:808-830: the test of line 811-815
BkPaddleHit(b) ==
    /\ b.x < AddF(BkPaddleX, F32(BK_PADDLE_WIDTH))
    /\ AddF(b.x, F32(BK_BALL_SIZE)) > BkPaddleX
    /\ b.y < AddF(BkPaddleY, F32(BK_PADDLE_HEIGHT))
    /\ AddF(b.y, F32(BK_BALL_SIZE)) > BkPaddleY
    /\ b.vy > 0

\* hit_pos, angle and the new velocity of the paddle bounce, breakout.rs:821-827
BkHitPos(b) ==
    DivF(SubF(AddF(b.x, DivF(F32(BK_BALL_SIZE), F32(2))), BkPaddleX), F32(BK_PADDLE_WIDTH))
BkAngle(hit_pos) == DivF(MulF(SubF(hit_pos, Lit(5, 10)), PiF32), F32(3))
BkBounce(angle, speed) == <<MulF(SinF(angle), speed), MulF(-Abs(CosF(angle)), speed)>>
BkWithVel(b, v) == [b EXCEPT !.vx = v[1], !.vy = v[2]]

\* every paddle of the world is at (BkPaddleX, BkPaddleY); after the first has
\* turned the ball upwards the test vel.y > 0 fails for the others
BkPaddle(b, paddles) ==
    IF paddles > 0 /\ BkPaddleHit(b)
    THEN BkWithVel(b, BkBounce(BkAngle(BkHitPos(b)), Speed(<<b.vx, -b.vy>>)))
    ELSE b

\* ball-brick part, breakout.rs:833-857: the bricks the ball overlaps
BkBrickHits(b, bricks) ==
    LET right == AddF(b.x, F32(BK_BALL_SIZE))
        bottom == AddF(b.y, F32(BK_BALL_SIZE))
        cols == {c \in 0..(BRICK_COLS - 1) :
                    b.x < AddF(BrickColX[c], F32(BRICK_WIDTH)) /\ right > BrickColX[c]}
        rows == {r \in 0..(BRICK_ROWS - 1) :
                    b.y < AddF(BrickRowY[r], F32(BRICK_HEIGHT)) /\ bottom > BrickRowY[r]}
    IN {k \in bricks : k[1] \in rows /\ k[2] \in cols}

\* every overlapped brick negates vel.y once
BkBricks(b, bricks) ==
    IF Cardinality(BkBrickHits(b, bricks)) % 2 = 1 THEN [b EXCEPT !.vy = -b.vy] ELSE b

\* one dispatch on the ball; the joins skip a ball that is gone
BkCollide(b, bricks, paddles) ==
    IF b.alive THEN BkBricks(BkPaddle(BkWalls(b), paddles), bricks) ELSE b

\* the bricks a ball deletes in a dispatch measuring dt
BkDeleted(b, dt, bricks) ==
    IF b.alive THEN BkBrickHits(BkWalls(BkPhysics(b, dt)), bricks) ELSE {}

\* world.maintain(): the entities deleted in the dispatch leave the world
BkMaintainBall(b) == IF b.killed THEN [b EXCEPT !.alive = FALSE, !.killed = FALSE] ELSE b

\* BreakoutGame::new, breakout.rs:98-149; the loop has not started
BkInit ==
    /\ bk_pc = "input"
    /\ bk_state = "Menu"
    /\ bk_delta = 0
    /\ bk_elapsed = 0
    /\ bk_ball = BkNewBall
    /\ bk_oldBall = BkNoBall
    /\ bk_bricks = AllBricks(1)
    /\ bk_paddles = 1
    /\ bk_gen = 1
    /\ bk_lives = BkStartLives
    /\ bk_level = 1
    /\ bk_remaining = Cardinality(AllBricks(1))
    /\ bk_updates = 0
    /\ bk_dispatches = 0
    /\ bk_dispatchDelta = 0
    /\ LoopIdle
    /\ EcsIdle
    /\ PipeIdle
    /\ DetIdle
    /\ PgIdle
    /\ ColIdle
    /\ NfIdle
    /\ ScIdle
    /\ MnIdle
    /\ DfIdle
    /\ StIdle

\* initialize_level, breakout.rs:152-194.  clear_level deletes the ball, the
\* bricks and the paddle of the level before, and entities().delete leaves an
\* entity in the world until the next world.maintain(): until then the old
\* paddle, the old bricks (of an earlier generation) and the old ball, if it
\* was alive, are joined with the new ones, and count_bricks counts the old
\* bricks too.
BkInitializeLevel ==
    /\ bk_oldBall' = IF bk_ball.alive THEN bk_ball ELSE bk_oldBall
    /\ bk_ball' = BkNewBall
    /\ bk_paddles' = bk_paddles + 1
    /\ bk_gen' = bk_gen + 1
    /\ bk_bricks' = bk_bricks \cup AllBricks(bk_gen + 1)
    /\ bk_remaining' = Cardinality(bk_bricks) + Cardinality(AllBricks(bk_gen + 1))

\* the launch of handle_input, breakout.rs:679-702, is taken: Space was just
\* pressed in Playing and the first ball of self.balls is attached to the paddle
BkLaunches(keys) ==
    bk_state = "Playing" /\ "Space" \in keys /\ bk_ball.alive /\ bk_ball.attached

\* handle_input, breakout.rs:663-722, with the set of keys that were just
\* pressed; in Playing the tests of Escape and of Space are independent.
\* The launch sets the ball's velocity (686-693) and then asks for
\* write_storage::<Ball>() (696) while the ReadStorage<Ball> of line 682 is
\* still borrowed: the second borrow panics, attached_to_paddle is never
\* cleared and the program ends.
BkHandleInput ==
    /\ bk_pc = "input"
    /\ bk_updates < MaxBkUpdates
    /\ \E keys \in SUBSET BkKeys :
        /\ bk_pc' = IF BkLaunches(keys) THEN "panicked" ELSE "update"
        /\ \* the branch of the match on game_state
          CASE bk_state = "Menu" /\ "Space" \in keys ->
                  /\ bk_state' = "Playing"
                  /\ UNCHANGED <<bk_ball, bk_oldBall, bk_bricks, bk_paddles, bk_gen, bk_lives,
                                 bk_level, bk_remaining>>
            [] bk_state = "Playing" ->
                  /\ bk_state' = IF "Escape" \in keys THEN "Paused" ELSE "Playing"
                  /\ bk_ball' = IF BkLaunches(keys)
                                THEN [bk_ball EXCEPT !.vx = F32(BK_BALL_SPEED),
                                                     !.vy = -F32(BK_BALL_SPEED)]
                                ELSE bk_ball
                  /\ UNCHANGED <<bk_oldBall, bk_bricks, bk_paddles, bk_gen, bk_lives,
                                 bk_level, bk_remaining>>
            [] bk_state = "Paused" /\ "Escape" \in keys ->
                  /\ bk_state' = "Playing"
                  /\ UNCHANGED <<bk_ball, bk_oldBall, bk_bricks, bk_paddles, bk_gen, bk_lives,
                                 bk_level, bk_remaining>>
            [] bk_state = "GameOver" /\ "R" \in keys ->
                  \* restart_game, breakout.rs:724-730
                  /\ bk_level' = 1
                  /\ bk_lives' = BkStartLives
                  /\ BkInitializeLevel
                  /\ bk_state' = "Playing"
            [] bk_state = "LevelComplete" /\ "Space" \in keys ->
                  /\ bk_state' = "Playing"
                  /\ UNCHANGED <<bk_ball, bk_oldBall, bk_bricks, bk_paddles, bk_gen, bk_lives,
                                 bk_level, bk_remaining>>
            [] OTHER ->
                  UNCHANGED <<bk_state, bk_ball, bk_oldBall, bk_bricks, bk_paddles, bk_gen,
                              bk_lives, bk_level, bk_remaining>>
    /\ UNCHANGED <<bk_delta, bk_elapsed, bk_updates, bk_dispatches, bk_dispatchDelta>>
    /\ UNCHANGED notBkVars

\* one dispatch and the maintain after it on a ball, breakout.rs:307-326
BkStep(b, dt, bricks, paddles) == BkMaintainBall(BkCollide(BkPhysics(b, dt), bricks, paddles))

\* BreakoutGame::update, breakout.rs:278-363: the time since the last update is
\* measured and stored in Time; the delta_time argument is not used.  In
\* Playing the dispatch runs on every ball, brick and paddle still in the
\* world, then world.maintain() removes what the dispatch and clear_level
\* deleted, then the balls of self.balls that are alive are counted.
BkUpdate ==
    /\ bk_pc = "update"
    /\ bk_pc' = "input"
    /\ bk_updates' = bk_updates + 1
    /\ \E d \in BkWallDeltas :
          \E actual_delta \in {AsSecsF32(d \div NanosPerSec, d % NanosPerSec)} :
             /\ bk_delta' = actual_delta
             /\ bk_elapsed' = AddF(bk_elapsed, actual_delta)
             /\ CASE bk_state = "Menu" ->
                       \* the main menu always has a selected item (menu.rs:206-212)
                       /\ bk_state' = "Playing"
                       /\ UNCHANGED <<bk_ball, bk_oldBall, bk_bricks, bk_paddles, bk_gen, bk_lives,
                                      bk_level, bk_remaining, bk_dispatches, bk_dispatchDelta>>
                  [] bk_state = "Playing" ->
                       /\ bk_dispatches' = bk_dispatches + 1
                       /\ bk_dispatchDelta' = actual_delta
                       /\ bk_ball' = BkStep(bk_ball, actual_delta, bk_bricks, bk_paddles)
                       /\ bk_oldBall' = BkNoBall
                       /\ bk_bricks' = {k \in bk_bricks \ (BkDeleted(bk_ball, actual_delta, bk_bricks)
                                                           \cup BkDeleted(bk_oldBall, actual_delta, bk_bricks)) :
                                           k[3] = bk_gen}
                       /\ bk_paddles' = 1
                       /\ bk_lives' = IF ~bk_ball'.alive THEN bk_lives - 1 ELSE bk_lives
                       /\ bk_state' = IF ~bk_ball'.alive /\ bk_lives - 1 <= 0 THEN "GameOver"
                                      ELSE IF bk_remaining = 0 THEN "LevelComplete"
                                      ELSE "Playing"
                       /\ UNCHANGED <<bk_gen, bk_level, bk_remaining>>
                  [] bk_state = "LevelComplete" ->
                       /\ bk_level' = bk_level + 1
                       /\ BkInitializeLevel
                       /\ bk_state' = "Playing"
                       /\ UNCHANGED <<bk_lives, bk_dispatches, bk_dispatchDelta>>
                  [] OTHER ->
                       UNCHANGED <<bk_state, bk_ball, bk_oldBall, bk_bricks, bk_paddles, bk_gen,
                                   bk_lives, bk_level, bk_remaining, bk_dispatches,
                                   bk_dispatchDelta>>
    /\ UNCHANGED notBkVars

\* render_context.should_close() is true at the top of the loop, breakout.rs:927
BkClose ==
    /\ bk_pc = "input"
    /\ bk_pc' = "closed"
    /\ UNCHANGED <<bk_state, bk_delta, bk_elapsed, bk_ball, bk_oldBall, bk_bricks, bk_paddles,
                   bk_gen, bk_lives, bk_level, bk_remaining, bk_updates, bk_dispatches,
                   bk_dispatchDelta>>
    /\ UNCHANGED notBkVars

BkNext == BkHandleInput \/ BkUpdate \/ BkClose

SpecBreakout == BkInit /\ [][BkNext]_vars

\* C1: every dispatch runs with Time.delta equal to the fixed step
\* 1/target_fps, never with a measured wall-clock delta.
C1_DispatchUsesFixedStep ==
    bk_dispatches > 0 => bk_dispatchDelta = FixedDt

(***************************************************************************)
(* demos/pong_demo.rs.  Time.delta is the constant 1.0 / 60.0 and           *)
(* Time.elapsed the wall-clock time since the start; the model holds the    *)
(* wall clock in microseconds and every f32 by its bit pattern.  The        *)
(* dispatcher is a dependency chain (PongDemoPipeline), so one dispatch is  *)
(* the systems one after the other.                                         *)
(***************************************************************************)
SCREEN_WIDTH == 800
SCREEN_HEIGHT == 600
PADDLE_WIDTH == 20
PADDLE_HEIGHT == 100
BALL_SIZE == 15
PADDLE_SPEED == 300
BALL_SPEED == 400

\* n pixels as a position, n px/s as a velocity
Px(n) == F32(n)
Pps(n) == F32(n)

\* let delta_time = 1.0 / 60.0, pong_demo.rs:85
PongDelta == DivF(F32(1), F32(60))

\* start_time.elapsed().as_secs_f32() when us microseconds have passed,
\* pong_demo.rs:89
PongElapsed(us) == AsSecsF32(us \div 1000000, (us % 1000000) * 1000)

\* SCREEN_HEIGHT / 2.0 - PADDLE_HEIGHT / 2.0 and the ball's place at the
\* centre, pong_demo.rs:142, 160
PaddleStartY == SubF(DivF(Px(SCREEN_HEIGHT), F32(2)), DivF(Px(PADDLE_HEIGHT), F32(2)))
BallCentre == <<SubF(DivF(Px(SCREEN_WIDTH), F32(2)), DivF(Px(BALL_SIZE), F32(2))),
                SubF(DivF(Px(SCREEN_HEIGHT), F32(2)), DivF(Px(BALL_SIZE), F32(2)))>>

\* create_pong_entities, pong_demo.rs:137-173, and GameState::default
PongWorld ==
    [py |-> PaddleStartY, pvy |-> 0,
     ay |-> PaddleStartY, avy |-> 0,
     bx |-> BallCentre[1], by |-> BallCentre[2],
     bvx |-> Pps(BALL_SPEED), bvy |-> MulF(Pps(BALL_SPEED), Lit(5, 10)),
     player_score |-> 0, ai_score |-> 0, game_phase |-> "Playing"]

PlayerPaddleX == Px(50)
AiPaddleX == SubF(SubF(Px(SCREEN_WIDTH), Px(50)), Px(PADDLE_WIDTH))

\* PongInputSystem::run, pong_demo.rs:206-220
PongInput(w, keys) ==
    [w EXCEPT !.pvy = IF "S" \in keys THEN Pps(PADDLE_SPEED)
                      ELSE IF "W" \in keys THEN -Pps(PADDLE_SPEED) ELSE 0]

\* PongAISystem::run, pong_demo.rs:235-262.  ball_pos is the first Position of
\* the storage, which is the player paddle's; elapsed is Time.elapsed.
\* diff + ai_error, and the velocity chosen from it
TargetDiff(w, elapsed) ==
    AddF(SubF(w.py, AddF(w.ay, DivF(Px(PADDLE_HEIGHT), F32(2)))),
         MulF(SinF(MulF(elapsed, F32(2))), F32(20)))
AiVelocity(target_diff) ==
    IF Abs(target_diff) > F32(10)
    THEN MulF(MulF(IF target_diff > 0 THEN F32(1) ELSE F32(-1), Pps(PADDLE_SPEED)), Lit(8, 10))
    ELSE 0
PongAI(w, elapsed) == [w EXCEPT !.avy = AiVelocity(TargetDiff(w, elapsed))]

\* PhysicsSystem::run, systems.rs:19-31, on the paddles and the ball (no
\* entity has an Acceleration): position += velocity * time.delta
PongPhysics(w) ==
    [w EXCEPT !.py = AddF(@, MulF(w.pvy, PongDelta)), !.ay = AddF(@, MulF(w.avy, PongDelta)),
              !.bx = AddF(@, MulF(w.bvx, PongDelta)), !.by = AddF(@, MulF(w.bvy, PongDelta))]

\* check_paddle_ball_collision, pong_demo.rs:339-344
check_paddle_ball_collision(bx, by, px, py) ==
    /\ bx < AddF(px, Px(PADDLE_WIDTH))
    /\ AddF(bx, Px(BALL_SIZE)) > px
    /\ by < AddF(py, Px(PADDLE_HEIGHT))
    /\ AddF(by, Px(BALL_SIZE)) > py

\* spin_factor of a paddle hit, pong_demo.rs:299-301
SpinFactor(ballY, paddleY) ==
    DivF(SubF(AddF(ballY, DivF(Px(BALL_SIZE), F32(2))),
              AddF(paddleY, DivF(Px(PADDLE_HEIGHT), F32(2)))),
         DivF(Px(PADDLE_HEIGHT), F32(2)))

\* the velocity a paddle hit starts the speed check from, pong_demo.rs:294-302
\* (spin 100) and improved_pong.rs:921-927 (spin 50): x negated and the spin
\* added to y
Spin(ballY, paddleY, vx, vy, spin) ==
    <<-vx, AddF(vy, MulF(SpinFactor(ballY, paddleY), F32(spin)))>>

\* v.x / speed * nominal * factor, and the same for y
Rescaled(v, speed, nominal, factor) ==
    <<MulF(MulF(DivF(v[1], speed), nominal), factor),
      MulF(MulF(DivF(v[2], speed), nominal), factor)>>

\* the speed check: a velocity of a speed above 1.5 times nominal is rescaled
Capped(v, speed, nominal, factor) ==
    IF speed > MulF(nominal, Lit(15, 10)) THEN Rescaled(v, speed, nominal, factor) ELSE v

\* the velocity after a paddle hit, pong_demo.rs:294-311
PaddleBounceOf(new_vel) == Capped(new_vel, Speed(new_vel), Pps(BALL_SPEED), Lit(12, 10))
PaddleBounce(w, paddleY, vx, vy) == PaddleBounceOf(Spin(w.by, paddleY, vx, vy, 100))

\* reset_ball, pong_demo.rs:346-352; rnd is the pair of values rand::random
\* returns: a bool and an f32 in [0, 1), given in thousandths
reset_ball(w, rnd) ==
    [w EXCEPT !.bvx = MulF(Pps(BALL_SPEED), IF rnd[1] THEN F32(1) ELSE F32(-1)),
              !.bvy = MulF(MulF(SubF(Lit(rnd[2], 1000), Lit(5, 10)), Pps(BALL_SPEED)),
                           Lit(5, 10))]

\* the y velocity after the wall check, pong_demo.rs:281-285
WallVy(w) ==
    IF w.by <= 0 \/ w.by >= SubF(Px(SCREEN_HEIGHT), Px(BALL_SIZE)) THEN -w.bvy ELSE w.bvy

\* the ball's velocity after the wall check and the paddle loop,
\* pong_demo.rs:281-319
PongBallVel(w) ==
    IF check_paddle_ball_collision(w.bx, w.by, PlayerPaddleX, w.py)
    THEN PaddleBounce(w, w.py, w.bvx, WallVy(w))
    ELSE IF check_paddle_ball_collision(w.bx, w.by, AiPaddleX, w.ay)
    THEN PaddleBounce(w, w.ay, w.bvx, WallVy(w))
    ELSE <<w.bvx, WallVy(w)>>
WithBallVel(w, v) == [w EXCEPT !.bvx = v[1], !.bvy = v[2]]

\* the scoring check on the ball's position, pong_demo.rs:321-333
PongScoring(w, rnd) ==
    IF w.bx < -Px(BALL_SIZE)
    THEN reset_ball([w EXCEPT !.ai_score = @ + 1, !.game_phase = "Scored"], rnd)
    ELSE IF w.bx > Px(SCREEN_WIDTH)
    THEN reset_ball([w EXCEPT !.player_score = @ + 1, !.game_phase = "Scored"], rnd)
    ELSE w

\* PongCollisionSystem::run, pong_demo.rs:278-336
PongCollision(w, rnd) == PongScoring(WithBallVel(w, PongBallVel(w)), rnd)

\* time.elapsed % period < time.delta, pong_demo.rs:369, 381
WithinStepOf(elapsed, period) == RemF(elapsed, F32(period)) < PongDelta

\* PongGameLogicSystem::run, pong_demo.rs:366-390
PongGameLogic(w, elapsed) ==
    CASE w.game_phase = "Scored" ->
            IF WithinStepOf(elapsed, 2) THEN [w EXCEPT !.game_phase = "Reset"] ELSE w
      [] w.game_phase = "Reset" ->
            [w EXCEPT !.bx = BallCentre[1],
                      !.by = BallCentre[2],
                      !.game_phase = IF WithinStepOf(elapsed, 1) THEN "Playing" ELSE @]
      [] OTHER -> w

\* the dispatch of one iteration, pong_demo.rs:92: the systems in the order
\* of the pipeline, elapsed being Time.elapsed
PongDispatch(w, keys, elapsed, rnd) ==
    PongGameLogic(PongCollision(PongPhysics(PongAI(PongInput(w, keys), elapsed)), rnd),
                  elapsed)

\* one iteration of the loop, pong_demo.rs:84-93, when the wall clock reads
\* us microseconds: Time.elapsed is set from it, then the dispatch
PongTick(w, keys, us, rnd) == PongDispatch(w, keys, PongElapsed(us), rnd)

PongKeySets == {{}, {"W"}, {"S"}}
PongRandoms == {<<TRUE, 0>>, <<FALSE, 999>>}

\* wall-clock time one iteration takes, microseconds: the 16 ms sleep, or a stall
PongWallDeltas == {16000, 500000}

\* Position and Velocity of every entity of a pong world
PosVel(w) == <<w.py, w.pvy, w.ay, w.avy, w.bx, w.by, w.bvx, w.bvy>>

\* two runs start from the same world
DetInit ==
    /\ det_wA = PongWorld
    /\ det_wB = PongWorld
    /\ det_eA = 0
    /\ det_eB = 0
    /\ det_tick = 0
    /\ LoopIdle
    /\ EcsIdle
    /\ PipeIdle
    /\ BkIdle
    /\ PgIdle
    /\ ColIdle
    /\ NfIdle
    /\ ScIdle
    /\ MnIdle
    /\ DfIdle
    /\ StIdle

\* both runs make their next tick with the same input snapshot and the same
\* random draws; the wall-clock time that has passed is each run's own
DetTick ==
    /\ det_tick < MaxPongTicks
    /\ \E keys \in PongKeySets, rnd \in PongRandoms, dA \in PongWallDeltas, dB \in PongWallDeltas :
          \E tA \in {PongElapsed(det_eA + dA)}, tB \in {PongElapsed(det_eB + dB)} :
             /\ det_eA' = det_eA + dA
             /\ det_eB' = det_eB + dB
             /\ det_wA' = PongDispatch(det_wA, keys, tA, rnd)
             /\ det_wB' = PongDispatch(det_wB, keys, tB, rnd)
    /\ det_tick' = det_tick + 1
    /\ UNCHANGED notDetVars

DetNext == DetTick

SpecDet == DetInit /\ [][DetNext]_vars

\* C2: two runs from the same initial world with the same input snapshots
\* hold the same Position and Velocity values after the same number of
\* ticks, whatever wall-clock deltas each run measured.
C2_SameTicksSameState ==
    PosVel(det_wA) = PosVel(det_wB)

(***************************************************************************)
(* One run of demos/pong_demo.rs from the world main builds.  Nothing in    *)
(* pong_demo writes InputState, so keys_pressed stays empty.                *)
(***************************************************************************)
PongDemoKeys == {}

\* the world is built, the loop has not started, pong_demo.rs:52-80
PgInit ==
    /\ pg_w = PongWorld
    /\ pg_e = 0
    /\ pg_tick = 0
    /\ pg_mid = PongWorld
    /\ LoopIdle
    /\ EcsIdle
    /\ PipeIdle
    /\ BkIdle
    /\ DetIdle
    /\ ColIdle
    /\ NfIdle
    /\ ScIdle
    /\ MnIdle
    /\ DfIdle
    /\ StIdle

\* one iteration of the loop, pong_demo.rs:84-121
PgTick ==
    /\ pg_tick < MaxPgTicks
    /\ \E rnd \in PongRandoms, d \in PongWallDeltas :
          \E elapsed \in {PongElapsed(pg_e + d)} :
             /\ pg_e' = pg_e + d
             /\ pg_mid' = PongPhysics(PongAI(PongInput(pg_w, PongDemoKeys), elapsed))
             /\ pg_w' = PongGameLogic(PongCollision(pg_mid', rnd), elapsed)
    /\ pg_tick' = pg_tick + 1
    /\ UNCHANGED notPgVars

PgNext == PgTick

SpecPong == PgInit /\ [][PgNext]_vars

OffField(w) == w.bx < -Px(BALL_SIZE) \/ w.bx > Px(SCREEN_WIDTH)

\* C11: in the tick in which the ball is found past a scoring edge the score
\* of the other side goes up by one and the ball is put back at the field
\* centre, so no tick ends with the ball off the field.
C11_ScoreResetsBallSameTick ==
    [][ OffField(pg_mid') =>
          /\ pg_w'.player_score + pg_w'.ai_score = pg_w.player_score + pg_w.ai_score + 1
          /\ <<pg_w'.bx, pg_w'.by>> = BallCentre ]_vars

\* the points both sides hold
TotalScore(w) == w.player_score + w.ai_score

\* C26: one crossing of a scoring edge changes the score by exactly 1 in
\* total: the tick that finds the ball past the edge adds one point, and a
\* following tick that finds the ball still past the edge, the same
\* out-of-bounds event, adds nothing.
C26_OneCrossingOnePoint ==
    [][ /\ (~OffField(pg_mid) /\ OffField(pg_mid')) =>
              TotalScore(pg_w') = TotalScore(pg_w) + 1
        /\ (OffField(pg_mid) /\ OffField(pg_mid')) =>
              TotalScore(pg_w') = TotalScore(pg_w) ]_vars


\* the Position components of a pong world
Positions(w) == <<w.py, w.ay, w.bx, w.by>>

\* C20: Position components are written only by the physics step and the
\* collision step: at the end of a tick every Position is as the collision
\* step left it (PongCollisionSystem holds Position read-only, so as the
\* physics step left it).
C20_OnlyPhysicsAndCollisionWritePosition ==
    [][ pg_tick' = pg_tick + 1 => Positions(pg_w') = Positions(pg_mid') ]_vars

(***************************************************************************)
(* One run of a pong collision system on one world.  The worlds are the    *)
(* pong world with the ball and the paddles placed at the walls, on the    *)
(* paddles and in mid-field, and the ball moving at speeds on both sides   *)
(* of the cap.  improved_pong.rs has the geometry of pong_demo.rs          *)
(* (improved_pong.rs:25-29, 994-1027) and its own BALL_SPEED.              *)
(***************************************************************************)
IP_BALL_SPEED == 450

\* the velocity after a paddle hit, improved_pong.rs:919-935
ImprovedBounceOf(vel) == Capped(vel, Speed(vel), Pps(IP_BALL_SPEED), F32(1))
ImprovedBounce(w, paddleY, vx, vy) == ImprovedBounceOf(Spin(w.by, paddleY, vx, vy, 50))

\* the ball's velocity after the wall and paddle checks of CollisionSystem::run,
\* improved_pong.rs:905-938
ImprovedCollisionVel(w) ==
    IF check_paddle_ball_collision(w.bx, w.by, PlayerPaddleX, w.py)
    THEN ImprovedBounce(w, w.py, w.bvx, WallVy(w))
    ELSE IF check_paddle_ball_collision(w.bx, w.by, AiPaddleX, w.ay)
    THEN ImprovedBounce(w, w.ay, w.bvx, WallVy(w))
    ELSE <<w.bvx, WallVy(w)>>

ColBallX == {Px(60), Px(400), Px(725)}
ColBallY == {Px(-1), 0, Px(250), Px(300), SubF(Px(SCREEN_HEIGHT), Px(BALL_SIZE)), Px(590)}
ColPaddleY == {0, Px(250)}
ColVelX == {Pps(BALL_SPEED), -Pps(BALL_SPEED), Pps(IP_BALL_SPEED), -Pps(IP_BALL_SPEED)}
ColVelY == {Pps(-50), Pps(200), Pps(-500), Pps(560)}

ColProbes ==
    {[PongWorld EXCEPT !.bx = x, !.by = y, !.py = p, !.ay = p, !.bvx = vx, !.bvy = vy] :
        x \in ColBallX, y \in ColBallY, p \in ColPaddleY, vx \in ColVelX, vy \in ColVelY}

ColInit ==
    /\ col_in \in ColProbes
    /\ col_out = col_in
    /\ col_imp = <<col_in.bvx, col_in.bvy>>
    /\ col_done = FALSE
    /\ LoopIdle
    /\ EcsIdle
    /\ PipeIdle
    /\ BkIdle
    /\ DetIdle
    /\ PgIdle
    /\ NfIdle
    /\ ScIdle
    /\ MnIdle
    /\ DfIdle
    /\ StIdle

\* dispatching the collision system once
ColRun ==
    /\ ~col_done
    /\ \E rnd \in PongRandoms : col_out' = PongCollision(col_in, rnd)
    /\ col_imp' = ImprovedCollisionVel(col_in)
    /\ col_done' = TRUE
    /\ UNCHANGED col_in
    /\ UNCHANGED notColVars

ColNext == ColRun

SpecCol == ColInit /\ [][ColNext]_vars

\* the ball of col_in is on the field, away from the paddles, past the top
\* or the bottom edge
ColAtWall ==
    /\ col_in.by <= 0 \/ col_in.by >= SubF(Px(SCREEN_HEIGHT), Px(BALL_SIZE))
    /\ ~check_paddle_ball_collision(col_in.bx, col_in.by, PlayerPaddleX, col_in.py)
    /\ ~check_paddle_ball_collision(col_in.bx, col_in.by, AiPaddleX, col_in.ay)

\* v brought back into lo..hi
Within(v, lo, hi) == IF v < lo THEN lo ELSE IF v > hi THEN hi ELSE v

\* C13: a wall collision negates the perpendicular velocity component and,
\* in the same tick, clamps the position back inside the domain (y = -1,
\* vy = -50 at the top edge gives vy = +50 and y = 0).
C13_WallReflectsAndClamps ==
    (col_done /\ ColAtWall) =>
        /\ col_out.bvy = -col_in.bvy
        /\ col_out.by = Within(col_in.by, 0, SubF(Px(SCREEN_HEIGHT), Px(BALL_SIZE)))

\* the y of the paddle the ball of w overlaps, the player's paddle first
\* (the order of the paddle loop); <<>> when it overlaps none
HitPaddle(w) ==
    IF check_paddle_ball_collision(w.bx, w.by, PlayerPaddleX, w.py) THEN <<w.py>>
    ELSE IF check_paddle_ball_collision(w.bx, w.by, AiPaddleX, w.ay) THEN <<w.ay>>
    ELSE <<>>

\* the velocity the speed check of a paddle hit of w starts from, the spin
\* factor 100 (pong_demo.rs) or 50 (improved_pong.rs)
Spun(w, spin) == Spin(w.by, HitPaddle(w)[1], w.bvx, WallVy(w), spin)

\* v and u point the same way: no component has changed its sign and the
\* cross product is below 1 (px/s)^2
SameDirection(v, u) ==
    /\ (v[1] > 0) = (u[1] > 0)
    /\ (v[2] > 0) = (u[2] > 0)
    /\ Abs(SubF(MulF(v[1], u[2]), MulF(v[2], u[1]))) <= F32(1)

\* the paddle hit of col_in on the field would leave a speed above 1.5 times
\* nominal, in pong_demo.rs and in improved_pong.rs
ColPongCapped ==
    /\ HitPaddle(col_in) # <<>>
    /\ col_in.bx >= -Px(BALL_SIZE)
    /\ col_in.bx <= Px(SCREEN_WIDTH)
    /\ Speed(Spun(col_in, 100)) > MulF(Pps(BALL_SPEED), Lit(15, 10))
ColImprovedCapped ==
    /\ HitPaddle(col_in) # <<>>
    /\ Speed(Spun(col_in, 50)) > MulF(Pps(IP_BALL_SPEED), Lit(15, 10))

\* the speed of v is s to within 0.001 px/s, the rounding of the f32 arithmetic
SpeedNear(v, s) == Abs(SubF(Speed(v), s)) <= Lit(1, 1000)

\* C14: a paddle collision whose reflected and spin-perturbed velocity has a
\* speed above 1.5 times the nominal ball speed is rescaled to 1.2 times the
\* nominal speed, keeping the direction of the velocity; in pong_demo.rs and
\* in improved_pong.rs.
C14_SpeedCapTo120Percent ==
    col_done =>
        /\ ColPongCapped =>
              /\ SpeedNear(<<col_out.bvx, col_out.bvy>>, MulF(Pps(BALL_SPEED), Lit(12, 10)))
              /\ SameDirection(<<col_out.bvx, col_out.bvy>>, Spun(col_in, 100))
        /\ ColImprovedCapped =>
              /\ SpeedNear(col_imp, MulF(Pps(IP_BALL_SPEED), Lit(12, 10)))
              /\ SameDirection(col_imp, Spun(col_in, 50))

(***************************************************************************)
(* Game::update(delta_time) called by a client, lib.rs:113-121.  The        *)
(* argument is any f32, so every f32 of the World is a pair: <<"fin", n>>   *)
(* for the number n, <<"inf", 1>> and <<"inf", -1>> for the infinities and  *)
(* <<"nan", 0>> for NaN.  Finite numbers are scaled as in the ECS world     *)
(* above: delta in sixtieths of a second, Velocity as 60*v, Position as     *)
(* 3600*p.  No key is held.                                                 *)
(***************************************************************************)
Fin(n) == <<"fin", n>>
NaN == <<"nan", 0>>
PosInf == <<"inf", 1>>
NegInf == <<"inf", -1>>

\* f32::is_finite, is_nan
IsFinite(a) == a[1] = "fin"
IsNaN(a) == a[1] = "nan"
Sign(n) == IF n > 0 THEN 1 ELSE IF n < 0 THEN -1 ELSE 0

\* IEEE 754 multiplication and addition (the sign of a zero is not kept)
FMul(a, b) ==
    IF IsNaN(a) \/ IsNaN(b) THEN NaN
    ELSE IF IsFinite(a) /\ IsFinite(b) THEN Fin(a[2] * b[2])
    ELSE IF Sign(a[2]) * Sign(b[2]) = 0 THEN NaN
    ELSE <<"inf", Sign(a[2]) * Sign(b[2])>>
FAdd(a, b) ==
    IF IsNaN(a) \/ IsNaN(b) THEN NaN
    ELSE IF IsFinite(a) /\ IsFinite(b) THEN Fin(a[2] + b[2])
    ELSE IF IsFinite(a) THEN b
    ELSE IF IsFinite(b) THEN a
    ELSE IF a = b THEN a ELSE NaN

\* a world of the ECS section with every number as an f32
ToF32(w) ==
    [w EXCEPT !.pos = [e \in DOMAIN @ |-> <<Fin(@[e][1]), Fin(@[e][2])>>],
              !.vel = [e \in DOMAIN @ |-> <<Fin(@[e][1]), Fin(@[e][2])>>],
              !.acc = [e \in DOMAIN @ |-> <<Fin(@[e][1]), Fin(@[e][2])>>]]

\* PhysicsSystem::run, systems.rs:19-31, on f32 values
PhysicsRunF32(w, delta) ==
    LET vel1 == [e \in DOMAIN w.vel |->
                    IF e \in DOMAIN w.acc
                    THEN <<FAdd(w.vel[e][1], FMul(w.acc[e][1], delta)),
                           FAdd(w.vel[e][2], FMul(w.acc[e][2], delta))>>
                    ELSE w.vel[e]]
        pos1 == [e \in DOMAIN w.pos |->
                    IF e \in DOMAIN vel1
                    THEN <<FAdd(w.pos[e][1], FMul(vel1[e][1], delta)),
                           FAdd(w.pos[e][2], FMul(vel1[e][2], delta))>>
                    ELSE w.pos[e]]
    IN [w EXCEPT !.vel = vel1, !.pos = pos1]

\* InputSystem::run with no key held, systems.rs:120-152
InputRunF32(w) ==
    [w EXCEPT !.vel = [e \in DOMAIN @ |->
                          IF e \in w.player THEN <<Fin(0), Fin(0)>> ELSE @[e]]]

\* the arguments a client passes: 1/60 s, 1/30 s, NaN, +infinity
NfDeltas == {Fin(1), Fin(2), NaN, PosInf}

\* Game::new and the client's entities
NfInit ==
    /\ \E ts \in [1..MaxEntities -> Templates] : nf_w = ToF32(SpawnAll(EmptyWorld, ts))
    /\ nf_delta = Fin(0)
    /\ nf_elapsed = Fin(0)
    /\ nf_updates = 0
    /\ LoopIdle
    /\ EcsIdle
    /\ PipeIdle
    /\ BkIdle
    /\ DetIdle
    /\ PgIdle
    /\ ColIdle
    /\ ScIdle
    /\ MnIdle
    /\ DfIdle
    /\ StIdle

\* Game::update, lib.rs:113-121: the dispatcher runs physics before input
\* (both write Velocity), rendering only prints, and maintain finds nothing
\* deleted
NfUpdate ==
    /\ nf_updates < MaxNfUpdates
    /\ \E delta_time \in NfDeltas :
          /\ nf_delta' = delta_time
          /\ nf_elapsed' = FAdd(nf_elapsed, delta_time)
          /\ nf_w' = Maintain(InputRunF32(PhysicsRunF32(nf_w, delta_time)))
    /\ nf_updates' = nf_updates + 1
    /\ UNCHANGED notNfVars

NfNext == NfUpdate

SpecNonFinite == NfInit /\ [][NfNext]_vars

\* C18: when Time.delta is not finite the physics step is skipped: no
\* Position and no Velocity is changed by it.
C18_NonFiniteDeltaSkipsPhysics ==
    [][ ~IsFinite(nf_delta') =>
          /\ nf_w'.pos = nf_w.pos
          /\ \A e \in DOMAIN nf_w.vel \ nf_w.player : nf_w'.vel[e] = nf_w.vel[e] ]_vars

(***************************************************************************)
(* src/scoring.rs: a ScoringSystem and the calls a client makes on it.     *)
(* The achievements are the ScoreThreshold achievements of the presets and *)
(* of the tests of the module, and one more on another score type.         *)
(***************************************************************************)
ScPlayers == {"player1", "player2"}
ScTypes == {"Points", "Kills"}
ScPoints == {1, 5}

\* the Achievement values a client adds (presets::pong_scoring,
\* scoring.rs:405-416; test_achievements, scoring.rs:526-537)
ScAchievements ==
    { [id |-> "first_point", score_type |-> "Points", threshold |-> 1],
      [id |-> "test_achievement", score_type |-> "Points", threshold |-> 5],
      [id |-> "first_kill", score_type |-> "Kills", threshold |-> 1] }

\* ScoringSystem::get_score, scoring.rs:163-169
get_score(scores, player_id, score_type) == scores[player_id][score_type]

\* ScoringSystem::check_achievements, scoring.rs:247-297
check_achievements(ach, scores, player_id) ==
    [id \in DOMAIN ach |->
        IF ~ach[id].unlocked
           /\ get_score(scores, player_id, ach[id].score_type) >= ach[id].threshold
        THEN [ach[id] EXCEPT !.unlocked = TRUE]
        ELSE ach[id]]

\* ScoringSystem::get_unlocked_achievements, scoring.rs:300-305
get_unlocked_achievements(ach, player_id) == {id \in DOMAIN ach : ach[id].unlocked}

\* the pairs <<player, achievement>> such that the player's score of the
\* achievement's type is at least its threshold
MeetsNow(ach, scores) ==
    {<<q, id>> \in ScPlayers \X DOMAIN ach :
        get_score(scores, q, ach[id].score_type) >= ach[id].threshold}

\* ScoringSystem::new, scoring.rs:117-127
ScInit ==
    /\ sc_scores = [q \in ScPlayers |-> [t \in ScTypes |-> 0]]
    /\ sc_ach = <<>>
    /\ sc_ops = 0
    /\ sc_met = {}
    /\ LoopIdle
    /\ EcsIdle
    /\ PipeIdle
    /\ BkIdle
    /\ DetIdle
    /\ PgIdle
    /\ ColIdle
    /\ NfIdle
    /\ MnIdle
    /\ DfIdle
    /\ StIdle

\* ScoringSystem::add_achievement, scoring.rs:242-244
ScAddAchievement ==
    /\ sc_ops < MaxScOps
    /\ \E a \in ScAchievements :
          sc_ach' = [id \in DOMAIN sc_ach \cup {a.id} |->
                        IF id = a.id
                        THEN [score_type |-> a.score_type, threshold |-> a.threshold,
                              unlocked |-> FALSE]
                        ELSE sc_ach[id]]
    /\ sc_ops' = sc_ops + 1
    /\ sc_met' = sc_met \cup MeetsNow(sc_ach', sc_scores)
    /\ UNCHANGED sc_scores
    /\ UNCHANGED notScVars

\* ScoringSystem::add_score, scoring.rs:140-160
ScAddScore ==
    /\ sc_ops < MaxScOps
    /\ \E player_id \in ScPlayers, score_type \in ScTypes, points \in ScPoints :
          /\ sc_scores' = [sc_scores EXCEPT ![player_id][score_type] = @ + points]
          /\ sc_ach' = check_achievements(sc_ach, sc_scores', player_id)
    /\ sc_ops' = sc_ops + 1
    /\ sc_met' = sc_met \cup MeetsNow(sc_ach', sc_scores')
    /\ UNCHANGED notScVars

\* a direct call of the public ScoringSystem::check_achievements,
\* scoring.rs:247-297
ScCheckAchievements ==
    /\ sc_ops < MaxScOps
    /\ \E player_id \in ScPlayers :
          sc_ach' = check_achievements(sc_ach, sc_scores, player_id)
    /\ sc_ops' = sc_ops + 1
    /\ sc_met' = sc_met \cup MeetsNow(sc_ach', sc_scores)
    /\ UNCHANGED sc_scores
    /\ UNCHANGED notScVars

\* ScoringSystem::reset, scoring.rs:312-323
ScReset ==
    /\ sc_ops < MaxScOps
    /\ sc_scores' = [q \in ScPlayers |-> [t \in ScTypes |-> 0]]
    /\ sc_ach' = [id \in DOMAIN sc_ach |-> [sc_ach[id] EXCEPT !.unlocked = FALSE]]
    /\ sc_ops' = sc_ops + 1
    /\ sc_met' = {}
    /\ UNCHANGED notScVars

ScNext ==
    \/ ScAddAchievement
    \/ ScAddScore
    \/ ScCheckAchievements
    \/ ScReset

SpecScoring == ScInit /\ [][ScNext]_vars

\* C21: get_unlocked_achievements(p) returns the achievements unlocked for
\* player p; in particular the result for p holds only achievements whose
\* condition p has met.
C21_UnlockedAreThePlayersOwn ==
    \A q \in ScPlayers :
        \A id \in get_unlocked_achievements(sc_ach, q) : <<q, id>> \in sc_met

(***************************************************************************)
(* src/menu.rs: a MenuSystem and the calls a client makes on it.  An item   *)
(* is its id and whether is_selectable() holds for it (an enabled Button,   *)
(* Toggle, Slider or Selector; a Label, a Spacer or a disabled item is not  *)
(* selectable).  The loops of select_next and select_previous are taken one *)
(* iteration at a time.                                                     *)
(***************************************************************************)
MenuItems ==
    { [id |-> "play", selectable |-> TRUE],
      [id |-> "quit", selectable |-> TRUE],
      [id |-> "title", selectable |-> FALSE] }

\* MenuItem::is_selectable of items[index], menu.rs:112-120
is_selectable(items, index) == items[index + 1].selectable
Selectable(items) == {i \in 0..(Len(items) - 1) : is_selectable(items, i)}
Least(S) == CHOOSE i \in S : \A j \in S : i <= j

\* MenuSystem::clamp_selection, menu.rs:333-351
clamp_selection(items, sel) ==
    IF Len(items) = 0 THEN 0
    ELSE IF sel >= Len(items) \/ ~is_selectable(items, sel)
    THEN (IF Selectable(items) # {} THEN Least(Selectable(items)) ELSE sel)
    ELSE sel

\* Vec::retain(|item| item.id != id), menu.rs:194
RECURSIVE Retain(_, _)
Retain(items, id) ==
    IF items = <<>> THEN <<>>
    ELSE IF Head(items).id = id THEN Retain(Tail(items), id)
    ELSE <<Head(items)>> \o Retain(Tail(items), id)

\* the index the loops try next, menu.rs:231 and 250-254
PrevIndexNoWrap(idx, len) == IF idx = 0 THEN 0 ELSE idx - 1
NextIndex(idx, len) == (idx + 1) % len
PrevIndex(idx, len) == IF idx = 0 THEN len - 1 ELSE idx - 1

\* the record of a completed select call
Push(trail, r) == IF Len(trail) = 2 THEN <<trail[2], r>> ELSE Append(trail, r)
Completed(op, to) ==
    Push(mn_trail, [op |-> op, from |-> mn_sel, to |-> to,
                    ok |-> mn_nav /\ Cardinality(Selectable(mn_items)) >= 2])

\* MenuSystem::new, menu.rs:176-184; navigation_enabled is a public field
MnInit ==
    /\ mn_items = <<>>
    /\ mn_sel = 0
    /\ mn_nav \in BOOLEAN
    /\ mn_pc = "idle"
    /\ mn_idx = 0
    /\ mn_ops = 0
    /\ mn_trail = <<>>
    /\ LoopIdle
    /\ EcsIdle
    /\ PipeIdle
    /\ BkIdle
    /\ DetIdle
    /\ PgIdle
    /\ ColIdle
    /\ NfIdle
    /\ ScIdle
    /\ DfIdle
    /\ StIdle

\* MenuSystem::add_item, menu.rs:187-190 (update_layout ends with clamp_selection)
MnAddItem ==
    /\ mn_pc = "idle"
    /\ mn_ops < MaxMenuOps
    /\ Len(mn_items) < MaxMenuItems
    /\ \E item \in MenuItems :
          /\ mn_items' = Append(mn_items, item)
          /\ mn_sel' = clamp_selection(mn_items', mn_sel)
    /\ mn_ops' = mn_ops + 1
    /\ mn_trail' = <<>>
    /\ UNCHANGED <<mn_nav, mn_pc, mn_idx>>
    /\ UNCHANGED notMnVars

\* MenuSystem::remove_item, menu.rs:193-197
MnRemoveItem ==
    /\ mn_pc = "idle"
    /\ mn_ops < MaxMenuOps
    /\ \E item \in MenuItems :
          /\ mn_items' = Retain(mn_items, item.id)
          /\ mn_sel' = clamp_selection(mn_items', clamp_selection(mn_items', mn_sel))
    /\ mn_ops' = mn_ops + 1
    /\ mn_trail' = <<>>
    /\ UNCHANGED <<mn_nav, mn_pc, mn_idx>>
    /\ UNCHANGED notMnVars

\* MenuSystem::clear_items, menu.rs:200-203
MnClearItems ==
    /\ mn_pc = "idle"
    /\ mn_ops < MaxMenuOps
    /\ mn_items' = <<>>
    /\ mn_sel' = 0
    /\ mn_ops' = mn_ops + 1
    /\ mn_trail' = <<>>
    /\ UNCHANGED <<mn_nav, mn_pc, mn_idx>>
    /\ UNCHANGED notMnVars

\* MenuSystem::select_index, menu.rs:265-269
MnSelectIndex ==
    /\ mn_pc = "idle"
    /\ mn_ops < MaxMenuOps
    /\ \E index \in 0..(MaxMenuItems - 1) :
          mn_sel' = IF index < Len(mn_items) /\ is_selectable(mn_items, index)
                    THEN index ELSE mn_sel
    /\ mn_ops' = mn_ops + 1
    /\ mn_trail' = <<>>
    /\ UNCHANGED <<mn_items, mn_nav, mn_pc, mn_idx>>
    /\ UNCHANGED notMnVars

\* select_next and select_previous up to the loop, menu.rs:224-229 and 243-248
MnSelectCall ==
    /\ mn_pc = "idle"
    /\ mn_ops < MaxMenuOps
    /\ mn_ops' = mn_ops + 1
    /\ \E op \in {"next", "prev"} :
          IF ~mn_nav \/ Len(mn_items) = 0
          THEN /\ mn_trail' = Completed(op, mn_sel)
               /\ UNCHANGED <<mn_pc, mn_idx>>
          ELSE /\ mn_pc' = op
               /\ mn_idx' = mn_sel
               /\ UNCHANGED mn_trail
    /\ UNCHANGED <<mn_items, mn_sel, mn_nav>>
    /\ UNCHANGED notMnVars

\* one iteration of the loop of select_next, menu.rs:230-239, or of
\* select_previous, menu.rs:249-262
MnLoopStep ==
    /\ mn_pc \in {"next", "prev"}
    /\ LET i == IF mn_pc = "next" THEN NextIndex(mn_idx, Len(mn_items))
                ELSE PrevIndex(mn_idx, Len(mn_items))
       IN IF i = mn_sel
          THEN /\ mn_pc' = "idle"
               /\ mn_trail' = Completed(mn_pc, mn_sel)
               /\ UNCHANGED <<mn_sel, mn_idx>>
          ELSE IF i >= Len(mn_items)
          THEN \* self.items[prev_index]: index out of bounds, the call panics
               /\ mn_pc' = "panicked"
               /\ UNCHANGED <<mn_sel, mn_idx, mn_trail>>
          ELSE IF is_selectable(mn_items, i)
          THEN /\ mn_sel' = i
               /\ mn_pc' = "idle"
               /\ mn_trail' = Completed(mn_pc, i)
               /\ UNCHANGED mn_idx
          ELSE /\ mn_idx' = i
               /\ UNCHANGED <<mn_sel, mn_pc, mn_trail>>
    /\ UNCHANGED <<mn_items, mn_nav, mn_ops>>
    /\ UNCHANGED notMnVars

MnNext ==
    \/ MnAddItem
    \/ MnRemoveItem
    \/ MnClearItems
    \/ MnSelectIndex
    \/ MnSelectCall
    \/ MnLoopStep

SpecMenu == MnInit /\ [][MnNext]_vars

\* the loop of a select call keeps being executed once it is entered
SpecMenuFair == SpecMenu /\ WF_vars(MnLoopStep)

\* C22: with navigation enabled and at least two selectable items,
\* select_next moves the selection to a different selectable item, and a
\* select_previous that follows restores the index that was selected before
\* the select_next.
C22_NextThenPreviousRestores ==
    /\ \A k \in 1..Len(mn_trail) :
          (mn_trail[k].op = "next" /\ mn_trail[k].ok) =>
              /\ mn_trail[k].to # mn_trail[k].from
              /\ mn_trail[k].to \in Selectable(mn_items)
    /\ (Len(mn_trail) = 2 /\ mn_trail[1].op = "next" /\ mn_trail[1].ok
           /\ mn_trail[2].op = "prev") =>
          mn_trail[2].to = mn_trail[1].from

C22_Witness ==
    /\ Len(mn_trail) = 2
    /\ mn_trail[1].op = "next" /\ mn_trail[1].ok
    /\ mn_trail[2].op = "prev"
    /\ mn_trail[1].to < mn_trail[1].from
    /\ \E i \in 0..(Len(mn_items) - 1) : ~is_selectable(mn_items, i)

\* C29: select_next and select_previous terminate in every menu state
\* reachable through add_item, remove_item, clear_items and the select
\* operations, including menus left with no selectable item.
C29_SelectTerminates == (mn_pc \in {"next", "prev"}) ~> (mn_pc \in {"idle", "panicked"})

(***************************************************************************)
(* src/difficulty.rs: a DifficultySystem and the calls a client makes on    *)
(* it.  Only the keys of the configuration map matter to the navigation.    *)
(***************************************************************************)
DifficultyLevels == {"VeryEasy", "Easy", "Normal", "Hard", "VeryHard", "Custom"}

\* the sort key of get_available_levels, difficulty.rs:319-326
LevelKey(level) ==
    CASE level = "VeryEasy" -> 0
      [] level = "Easy" -> 1
      [] level = "Normal" -> 2
      [] level = "Hard" -> 3
      [] level = "VeryHard" -> 4
      [] level = "Custom" -> 5

\* the keys of a map in the order of their sort key
RECURSIVE SortedLevels(_)
SortedLevels(S) ==
    IF S = {} THEN <<>>
    ELSE LET first == CHOOSE l \in S : \A k \in S : LevelKey(l) <= LevelKey(k)
         IN <<first>> \o SortedLevels(S \ {first})

\* DifficultySystem::get_available_levels, difficulty.rs:314-328: Custom is
\* pushed when custom_config is set, whether or not the map has that key
get_available_levels(configs, custom) ==
    SortedLevels(configs) \o (IF custom THEN <<"Custom">> ELSE <<>>)

\* levels.iter().position(|&level| level == current).unwrap_or(0), counted from 0
PositionOrZero(levels, current) ==
    IF \E i \in 1..Len(levels) : levels[i] = current
    THEN (CHOOSE i \in 1..Len(levels) :
             levels[i] = current /\ \A j \in 1..(i - 1) : levels[j] # current) - 1
    ELSE 0

\* next_level and previous_level, difficulty.rs:400-413, for a non-empty levels
next_level(levels, current) ==
    levels[((PositionOrZero(levels, current) + 1) % Len(levels)) + 1]
previous_level(levels, current) ==
    levels[(IF PositionOrZero(levels, current) = 0 THEN Len(levels) - 1
            ELSE PositionOrZero(levels, current) - 1) + 1]

\* DifficultySystem::new, difficulty.rs:128-136, or with_pong_defaults,
\* difficulty.rs:139-144, 166-219
DfInit ==
    /\ df_level = "Normal"
    /\ df_configs \in {{}, {"VeryEasy", "Easy", "Normal", "Hard", "VeryHard"}}
    /\ df_custom = FALSE
    /\ df_panicked = FALSE
    /\ df_ops = 0
    /\ df_trail = <<>>
    /\ LoopIdle
    /\ EcsIdle
    /\ PipeIdle
    /\ BkIdle
    /\ DetIdle
    /\ PgIdle
    /\ ColIdle
    /\ NfIdle
    /\ ScIdle
    /\ MnIdle
    /\ StIdle

DfCanCall == ~df_panicked /\ df_ops < MaxDfOps

\* DifficultySystem::set_difficulty, difficulty.rs:222-224
DfSetDifficulty ==
    /\ DfCanCall
    /\ \E level \in DifficultyLevels : df_level' = level
    /\ df_ops' = df_ops + 1
    /\ df_trail' = <<>>
    /\ UNCHANGED <<df_configs, df_custom, df_panicked>>
    /\ UNCHANGED notDfVars

\* DifficultySystem::set_custom_config, difficulty.rs:308-311
DfSetCustomConfig ==
    /\ DfCanCall
    /\ df_custom' = TRUE
    /\ df_level' = "Custom"
    /\ df_ops' = df_ops + 1
    /\ df_trail' = <<>>
    /\ UNCHANGED <<df_configs, df_panicked>>
    /\ UNCHANGED notDfVars

\* DifficultySystem::add_config, difficulty.rs:331-333
DfAddConfig ==
    /\ DfCanCall
    /\ \E level \in DifficultyLevels : df_configs' = df_configs \cup {level}
    /\ df_ops' = df_ops + 1
    /\ df_trail' = <<>>
    /\ UNCHANGED <<df_level, df_custom, df_panicked>>
    /\ UNCHANGED notDfVars

\* DifficultySystem::remove_config, difficulty.rs:336-341
DfRemoveConfig ==
    /\ DfCanCall
    /\ \E level \in DifficultyLevels :
          /\ df_configs' = df_configs \ {level}
          /\ df_level' = IF df_level = level THEN "Normal" ELSE df_level
    /\ df_ops' = df_ops + 1
    /\ df_trail' = <<>>
    /\ UNCHANGED <<df_custom, df_panicked>>
    /\ UNCHANGED notDfVars

\* next_level or previous_level, difficulty.rs:400-413; with no level
\* available the remainder by levels.len() (or levels.len() - 1) panics
DfNavigate ==
    /\ DfCanCall
    /\ df_ops' = df_ops + 1
    /\ LET levels == get_available_levels(df_configs, df_custom)
       IN IF Len(levels) = 0
          THEN /\ df_panicked' = TRUE
               /\ UNCHANGED <<df_level, df_trail>>
          ELSE /\ \E op \in {"next", "prev"} :
                     /\ df_level' = IF op = "next" THEN next_level(levels, df_level)
                                    ELSE previous_level(levels, df_level)
                     /\ df_trail' = Push(df_trail, [op |-> op, from |-> df_level,
                                                    to |-> df_level'])
               /\ UNCHANGED df_panicked
    /\ UNCHANGED <<df_configs, df_custom>>
    /\ UNCHANGED notDfVars

DfNext ==
    \/ DfSetDifficulty
    \/ DfSetCustomConfig
    \/ DfAddConfig
    \/ DfRemoveConfig
    \/ DfNavigate

SpecDifficulty == DfInit /\ [][DfNext]_vars

\* C23: next_level moves to the next available level in the order VeryEasy,
\* Easy, Normal, Hard, VeryHard, Custom, and previous_level is its inverse:
\* from any current level, next_level followed by previous_level restores
\* that level.
C23_PreviousUndoesNext ==
    (Len(df_trail) = 2 /\ df_trail[1].op = "next" /\ df_trail[2].op = "prev") =>
        df_trail[2].to = df_trail[1].from

(***************************************************************************)
(* src/game_state.rs: a StateManager and the calls a client makes on it.    *)
(* The registered states are known by their id; on_enter and on_exit are    *)
(* counted per id.                                                          *)
(***************************************************************************)
StateIds == {"menu", "playing", "paused"}

\* the guard of pop_state, game_state.rs:152
CannotPopWhenEmpty(stack) == Len(stack) = 0
CannotPop(stack) == Len(stack) <= 1

\* one more call of a callback on the state with this id
Called(count, id) == [count EXCEPT ![id] = @ + 1]

\* how often an id is on the stack
Occurrences(stack, id) == Cardinality({i \in 1..Len(stack) : stack[i] = id})

\* StateManager::new, game_state.rs:87-93
StInit ==
    /\ st_states = {}
    /\ st_stack = <<>>
    /\ st_ops = 0
    /\ st_enters = [id \in StateIds |-> 0]
    /\ st_exits = [id \in StateIds |-> 0]
    /\ st_result = "none"
    /\ st_before = <<>>
    /\ LoopIdle
    /\ EcsIdle
    /\ PipeIdle
    /\ BkIdle
    /\ DetIdle
    /\ PgIdle
    /\ ColIdle
    /\ NfIdle
    /\ ScIdle
    /\ MnIdle
    /\ DfIdle

\* StateManager::register_state, game_state.rs:96-99
StRegisterState ==
    /\ st_ops < MaxStOps
    /\ \E id \in StateIds : st_states' = st_states \cup {id}
    /\ st_ops' = st_ops + 1
    /\ st_result' = "none"
    /\ st_before' = st_stack
    /\ UNCHANGED <<st_stack, st_enters, st_exits>>
    /\ UNCHANGED notStVars

\* StateManager::switch_to, game_state.rs:102-124: on_exit goes to the top
\* of the stack only, then the whole stack is cleared
StSwitchTo ==
    /\ st_ops < MaxStOps
    /\ st_ops' = st_ops + 1
    /\ st_before' = st_stack
    /\ \E state_id \in StateIds :
          IF state_id \notin st_states
          THEN /\ st_result' = "err"
               /\ UNCHANGED <<st_stack, st_enters, st_exits>>
          ELSE /\ st_exits' = IF st_stack # <<>> /\ st_stack[Len(st_stack)] \in st_states
                              THEN Called(st_exits, st_stack[Len(st_stack)])
                              ELSE st_exits
               /\ st_stack' = <<state_id>>
               /\ st_enters' = Called(st_enters, state_id)
               /\ st_result' = "ok"
    /\ UNCHANGED st_states
    /\ UNCHANGED notStVars

\* StateManager::push_state, game_state.rs:127-148
StPushState ==
    /\ st_ops < MaxStOps
    /\ st_ops' = st_ops + 1
    /\ st_before' = st_stack
    /\ \E state_id \in StateIds :
          IF state_id \notin st_states
          THEN /\ st_result' = "err"
               /\ UNCHANGED <<st_stack, st_enters>>
          ELSE /\ st_stack' = Append(st_stack, state_id)
               /\ st_enters' = Called(st_enters, state_id)
               /\ st_result' = "ok"
    /\ UNCHANGED <<st_states, st_exits>>
    /\ UNCHANGED notStVars

\* StateManager::pop_state, game_state.rs:151-171
StPopState ==
    /\ st_ops < MaxStOps
    /\ st_ops' = st_ops + 1
    /\ st_before' = st_stack
    /\ IF CannotPop(st_stack)
       THEN /\ st_result' = "err"
            /\ UNCHANGED <<st_stack, st_exits>>
       ELSE /\ st_stack' = SubSeq(st_stack, 1, Len(st_stack) - 1)
            /\ st_exits' = IF st_stack[Len(st_stack)] \in st_states
                           THEN Called(st_exits, st_stack[Len(st_stack)])
                           ELSE st_exits
            /\ st_result' = "ok"
    /\ UNCHANGED <<st_states, st_enters>>
    /\ UNCHANGED notStVars

StNext ==
    \/ StRegisterState
    \/ StSwitchTo
    \/ StPushState
    \/ StPopState

SpecStates == StInit /\ [][StNext]_vars

\* a switch_to or push_state has succeeded
StStarted == \E id \in StateIds : st_enters[id] > 0

\* C24: once a switch_to or push_state has succeeded, whatever calls of
\* register_state, switch_to, push_state and pop_state follow, the stack is
\* not empty and holds registered ids only; a call that returns an error
\* leaves the stack as it was.
C24_StackStaysValid ==
    /\ StStarted =>
          /\ st_stack # <<>>
          /\ \A i \in 1..Len(st_stack) : st_stack[i] \in st_states
    /\ st_result = "err" => st_stack = st_before

\* a pop_state refused on a stack that an earlier pop_state has shortened
C24_Witness ==
    /\ st_result = "err"
    /\ Len(st_stack) = 1
    /\ \E id \in StateIds : st_exits[id] > 0

\* C25: every state that received on_enter receives on_exit exactly once
\* when it leaves the stack, removed by pop_state or by switch_to, on top or
\* below the top, and no state receives on_exit without an on_enter before:
\* the enters not yet answered by an exit are those of the ids on the stack.
C25_ExitAnswersEveryEnter ==
    \A id \in StateIds : st_enters[id] - st_exits[id] = Occurrences(st_stack, id)
====
